---- MODULE Spec2Model ----
(***************************************************************************)
(* Employee Time Tracker (backend/server.js): the attendance store, the    *)
(* clock-in / clock-out / scan handlers, the schedule handlers, the status *)
(* classifier detectAttendanceStatus, the exception detector, the reports, *)
(* the administrator's record edits, the deletion of an employee and the   *)
(* breaks.                                                                 *)
(*                                                                         *)
(* Units.  A timestamp is a local wall-clock instant in whole seconds      *)
(* counted from 00:00:00 of day 0; day 0 is Monday 2025-12-01.  SQLite's   *)
(* datetime("now","localtime") has whole seconds, so milliseconds are not  *)
(* modelled.  Hours that the program reports rounded to two decimals are   *)
(* kept in hundredths of an hour; expected_hours (REAL) is kept in         *)
(* thousandths of an hour.  Arithmetic is exact: the IEEE-754 error of     *)
(* JavaScript doubles is not modelled.                                     *)
(* A nullable column is <<>> (NULL) or <<v>>.  A text value is a sequence  *)
(* of one-character strings.                                               *)
(***************************************************************************)
EXTENDS Integers, Sequences, FiniteSets, TLC

VARIABLES
    employees,    \* employees table: employee_id -> [exists, active]
    attendance,   \* attendance table: a set of rows
    nextId,       \* attendance.id AUTOINCREMENT counter
    schedules,    \* employee_schedules table: a set of rows
    nextSchedId,  \* employee_schedules.id AUTOINCREMENT counter
    now,          \* the host clock, local time, seconds
    reqs,         \* requests in flight: slot -> the request's locals and position
    res,          \* the response of the last request that answered
    tz,           \* the host's offset from UTC, seconds
    query,        \* the parameters of a report request
    report,       \* what the report request answered
    breaks        \* breaks table: a set of rows

vars == <<employees, attendance, nextId, schedules, nextSchedId, now, reqs, res,
          tz, query, report, breaks>>

----------------------------------------------------------------------------
(* Bounds of the model *)

MaxRecords == 2
MaxTicks == 2
MaxSchedules == 3
MaxStored == 1
MaxDay == 6
MaxManual == 2
MaxBreaks == 2

EmpIds == {"e1", "e2"}
Slots == {1, 2}

----------------------------------------------------------------------------
(* Values *)

Null == <<>>
Some(v) == <<v>>
Val(x) == x[1]

SecondsPerHour == 60 * 60
SecondsPerDay == 24 * SecondsPerHour

\* The clock of the stateful specifications starts at 09:00:00 of day 0 and
\* advances in steps of 4h59m42s (an elapsed time whose hours end in ...5).
ClockStart == 9 * SecondsPerHour
TickSecs == 4 * SecondsPerHour + 59 * 60 + 42
ClockLimit == ClockStart + MaxTicks * TickSecs

\* floor(a / b + 1/2) for b > 0: JavaScript's Math.round(a / b), and SQLite's
\* ROUND on the non-negative values the clock-out path gives it.
RoundDiv(a, b) == (2 * a + b) \div (2 * b)

\* Elapsed seconds as hours rounded to 2 decimals, in hundredths of an hour.
HoursCenti(secs) == RoundDiv(secs, 36)

----------------------------------------------------------------------------
(* Text *)

MaxNotesLen == 500

RECURSIVE TrimStart(_)
TrimStart(s) ==
    IF s /= <<>> /\ Head(s) = " " THEN TrimStart(Tail(s)) ELSE s

RECURSIVE TrimEnd(_)
TrimEnd(s) ==
    IF s /= <<>> /\ s[Len(s)] = " " THEN TrimEnd(SubSeq(s, 1, Len(s) - 1)) ELSE s

Trim(s) == TrimEnd(TrimStart(s))

Substring(s, from, to) ==
    SubSeq(s, from + 1, IF to < Len(s) THEN to ELSE Len(s))

\* notes ? notes.trim().substring(0, 500) : null   (undefined and "" are falsy)
SanitizeNotes(notes) ==
    IF notes = <<>> THEN Null ELSE Some(Substring(Trim(notes), 0, MaxNotesLen))

NoteInputs == {<<>>, <<" ", "x">>}

----------------------------------------------------------------------------
(* The attendance table and the statements the handlers run on it *)

\* sep is the character between the date and the time of the stored clock_in
\* text: " " as datetime('now','localtime') writes it.
AttendanceRow(id, e, cin, cout, hours, notes) ==
    [id |-> id, employee_id |-> e, clock_in |-> cin, clock_out |-> cout,
     hours_worked |-> hours, notes |-> notes, sep |-> " "]

\* SELECT * FROM attendance WHERE employee_id = ? AND clock_out IS NULL
OpenRecords(att, e) ==
    {r \in att : r.employee_id = e /\ r.clock_out = Null}

\* ... ORDER BY clock_in DESC LIMIT 1: the rows db.get may return
\* The open record with the latest clock_in instant
LatestByInstant(att, e) ==
    {r \in OpenRecords(att, e) :
        \A o \in OpenRecords(att, e) : o.clock_in <= r.clock_in}

\* The order of two stored clock_in texts, as SQLite compares TEXT values:
\* the date first, then the separator (" " sorts before "T"), then the time
ClockInTextLeq(o, r) ==
    LET od == o.clock_in \div SecondsPerDay
        rd == r.clock_in \div SecondsPerDay
    IN  \/ od < rd
        \/ od = rd /\ o.sep = " " /\ r.sep = "T"
        \/ od = rd /\ o.sep = r.sep /\ o.clock_in <= r.clock_in

LatestOpenRecords(att, e) ==
    {r \in OpenRecords(att, e) :
        \A o \in OpenRecords(att, e) : ClockInTextLeq(o, r)}

\* INSERT INTO attendance (employee_id, clock_in) VALUES (?, datetime("now","localtime"))
InsertClockIn(att, id, e, t) ==
    att \cup {AttendanceRow(id, e, t, Null, Null, Null)}

\* UPDATE attendance SET clock_out = now, hours_worked = ROUND(elapsed * 24, 2),
\*   notes = ? WHERE id = ?
UpdateClockOut(att, id, t, notes) ==
    {IF r.id = id
        THEN [r EXCEPT !.clock_out = Some(t),
                       !.hours_worked = Some(HoursCenti(t - r.clock_in)),
                       !.notes = notes]
        ELSE r : r \in att}

\* The scan handler's UPDATE leaves notes alone.
UpdateScanOut(att, id, t) ==
    {IF r.id = id
        THEN [r EXCEPT !.clock_out = Some(t),
                       !.hours_worked = Some(HoursCenti(t - r.clock_in))]
        ELSE r : r \in att}

\* FOREIGN KEY (employee_id) REFERENCES employees(employee_id), foreign_keys = ON
ForeignKeyOk(emps, e) == e \in DOMAIN emps /\ emps[e].exists

Response(op, e, status, body) ==
    [op |-> op, employee_id |-> e, status |-> status, body |-> body]

NoResponse == Response("none", "", 0, "")

----------------------------------------------------------------------------
(* The handlers, each run to completion (one request at a time) *)

Absent == [exists |-> FALSE, active |-> 0]
Registered == [exists |-> TRUE, active |-> 1]

\* The employee_id of a request body; "" stands for a missing or empty one.
EmpInputs == EmpIds \cup {""}

StoreUnchanged == UNCHANGED <<employees, attendance, nextId, schedules, nextSchedId>>
ReportUnchanged == UNCHANGED <<tz, query, report, breaks>>

\* POST /api/clock-in
ClockInInsert(e) ==
    /\ nextId <= MaxRecords
    /\ attendance' = InsertClockIn(attendance, nextId, e, now)
    /\ nextId' = nextId + 1
    /\ res' = Response("clock-in", e, 200, "ok")

\* ClockIn without the check of employees.active.
ClockInNoActiveCheck(e) ==
    /\ IF e = ""
         THEN /\ res' = Response("clock-in", e, 400, "Employee ID is required")
              /\ UNCHANGED <<attendance, nextId>>
       ELSE IF ~employees[e].exists
         THEN /\ res' = Response("clock-in", e, 404, "Employee not found")
              /\ UNCHANGED <<attendance, nextId>>
       ELSE IF OpenRecords(attendance, e) /= {}
         THEN /\ res' = Response("clock-in", e, 400, "Already clocked in")
              /\ UNCHANGED <<attendance, nextId>>
       ELSE ClockInInsert(e)
    /\ UNCHANGED <<employees, schedules, nextSchedId, now, reqs>>
    /\ ReportUnchanged

ClockIn(e) ==
    /\ IF e = ""
         THEN /\ res' = Response("clock-in", e, 400, "Employee ID is required")
              /\ UNCHANGED <<attendance, nextId>>
       ELSE IF ~employees[e].exists
         THEN /\ res' = Response("clock-in", e, 404, "Employee not found")
              /\ UNCHANGED <<attendance, nextId>>
       ELSE IF employees[e].active = 0
         THEN /\ res' = Response("clock-in", e, 403, "Account has been deactivated")
              /\ UNCHANGED <<attendance, nextId>>
       ELSE IF OpenRecords(attendance, e) /= {}
         THEN /\ res' = Response("clock-in", e, 400, "Already clocked in")
              /\ UNCHANGED <<attendance, nextId>>
       ELSE ClockInInsert(e)
    /\ UNCHANGED <<employees, schedules, nextSchedId, now, reqs>>
    /\ ReportUnchanged

\* POST /api/clock-out
ClockOut(e, notes) ==
    /\ IF e = ""
         THEN /\ res' = Response("clock-out", e, 400, "Employee ID is required")
              /\ UNCHANGED attendance
       ELSE IF LatestOpenRecords(attendance, e) = {}
         THEN /\ res' = Response("clock-out", e, 400, "No active clock-in found")
              /\ UNCHANGED attendance
       ELSE \E r \in LatestOpenRecords(attendance, e) :
              /\ attendance' = UpdateClockOut(attendance, r.id, now, SanitizeNotes(notes))
              /\ res' = Response("clock-out", e, 200, "ok")
    /\ UNCHANGED <<employees, nextId, schedules, nextSchedId, now, reqs>>
    /\ ReportUnchanged

\* POST /api/attendance-scan
AttendanceScan(e) ==
    /\ IF e = ""
         THEN /\ res' = Response("scan", e, 400, "Employee ID required")
              /\ UNCHANGED <<attendance, nextId>>
       ELSE IF OpenRecords(attendance, e) /= {}
         THEN \E r \in OpenRecords(attendance, e) :
                /\ attendance' = UpdateScanOut(attendance, r.id, now)
                /\ res' = Response("scan", e, 200, "clock-out")
                /\ UNCHANGED nextId
       ELSE IF ~ForeignKeyOk(employees, e)
         THEN /\ res' = Response("scan", e, 500, "FOREIGN KEY constraint failed")
              /\ UNCHANGED <<attendance, nextId>>
       ELSE /\ nextId <= MaxRecords
            /\ attendance' = InsertClockIn(attendance, nextId, e, now)
            /\ nextId' = nextId + 1
            /\ res' = Response("scan", e, 200, "clock-in")
    /\ UNCHANGED <<employees, schedules, nextSchedId, now, reqs>>
    /\ ReportUnchanged

\* POST /api/employees/:employee_id/deactivate
Deactivate(e) ==
    /\ IF ~employees[e].exists
         THEN /\ res' = Response("deactivate", e, 404, "Employee not found")
              /\ UNCHANGED employees
       ELSE IF employees[e].active = 0
         THEN /\ res' = Response("deactivate", e, 400, "Employee is already deactivated")
              /\ UNCHANGED employees
       ELSE /\ employees' = [employees EXCEPT ![e].active = 0]
            /\ res' = Response("deactivate", e, 200, "ok")
    /\ UNCHANGED <<attendance, nextId, schedules, nextSchedId, now, reqs>>
    /\ ReportUnchanged

\* POST /api/employees/:employee_id/activate
Activate(e) ==
    /\ IF ~employees[e].exists
         THEN /\ res' = Response("activate", e, 404, "Employee not found")
              /\ UNCHANGED employees
       ELSE IF employees[e].active = 1
         THEN /\ res' = Response("activate", e, 400, "Employee is already active")
              /\ UNCHANGED employees
       ELSE /\ employees' = [employees EXCEPT ![e].active = 1]
            /\ res' = Response("activate", e, 200, "ok")
    /\ UNCHANGED <<attendance, nextId, schedules, nextSchedId, now, reqs>>
    /\ ReportUnchanged

\* The host clock advances.
Tick ==
    /\ now + TickSecs <= ClockLimit
    /\ now' = now + TickSecs
    /\ UNCHANGED <<employees, attendance, nextId, schedules, nextSchedId, reqs, res>>
    /\ ReportUnchanged

\* A free request slot.
IdleRequest == [pc |-> "idle", kind |-> "", emp |-> "", notes |-> <<>>, rec |-> 0]

NoQuery == [kind |-> "none"]
NoReport == [kind |-> "none"]

Init ==
    /\ employees \in [EmpIds -> {Absent, Registered}]
    /\ attendance = {}
    /\ nextId = 1
    /\ schedules = {}
    /\ nextSchedId = 1
    /\ now = ClockStart
    /\ reqs = [s \in Slots |-> IdleRequest]
    /\ res = NoResponse
    /\ tz = 0
    /\ query = NoQuery
    /\ report = NoReport
    /\ breaks = {}

Next ==
    \/ \E e \in EmpInputs : ClockIn(e)
    \/ \E e \in EmpInputs, n \in NoteInputs : ClockOut(e, n)
    \/ \E e \in EmpInputs : AttendanceScan(e)
    \/ \E e \in EmpIds : Deactivate(e)
    \/ \E e \in EmpIds : Activate(e)
    \/ Tick

Spec == Init /\ [][Next]_vars

----------------------------------------------------------------------------
(* The same handlers as the server runs them: every db.get / db.run is one  *)
(* step, and the steps of requests in flight interleave.                   *)

Request(pc, kind, e, notes, rec) ==
    [pc |-> pc, kind |-> kind, emp |-> e, notes |-> notes, rec |-> rec]

InFlight == {s \in Slots : reqs[s].pc /= "idle"}

\* A request ends: its slot is free again and its answer is in res.
Answer(s, status, body) ==
    /\ reqs' = [reqs EXCEPT ![s] = IdleRequest]
    /\ res' = Response(reqs[s].kind, reqs[s].emp, status, body)

Goto(s, pc) == reqs' = [reqs EXCEPT ![s].pc = pc]

RaceFrame == UNCHANGED <<employees, schedules, nextSchedId, now, tz, query, report, breaks>>

\* A request arrives (res counts nothing: the bound is on nextId and the clock).
Arrive(s, kind, e, notes) ==
    /\ reqs[s].pc = "idle"
    /\ IF e = ""
         THEN /\ res' = Response(kind, e, 400, "Employee ID is required")
              /\ UNCHANGED reqs
         ELSE /\ reqs' = [reqs EXCEPT ![s] =
                    Request(IF kind = "clock-in" THEN "select_employee" ELSE "select_open",
                            kind, e, IF kind = "clock-out" THEN notes ELSE <<>>, 0)]
              /\ UNCHANGED res
    /\ UNCHANGED <<attendance, nextId>>
    /\ RaceFrame

\* clock-in: SELECT employee_id, active FROM employees WHERE employee_id = ?
ClockInSelectEmployee(s) ==
    /\ reqs[s].pc = "select_employee"
    /\ IF ~employees[reqs[s].emp].exists
         THEN Answer(s, 404, "Employee not found")
       ELSE IF employees[reqs[s].emp].active = 0
         THEN Answer(s, 403, "Account has been deactivated")
       ELSE Goto(s, "select_open") /\ UNCHANGED res
    /\ UNCHANGED <<attendance, nextId>>
    /\ RaceFrame

\* clock-in: SELECT * FROM attendance WHERE employee_id = ? AND clock_out IS NULL
ClockInSelectOpen(s) ==
    /\ reqs[s].kind = "clock-in"
    /\ reqs[s].pc = "select_open"
    /\ IF OpenRecords(attendance, reqs[s].emp) /= {}
         THEN Answer(s, 400, "Already clocked in")
         ELSE Goto(s, "insert") /\ UNCHANGED res
    /\ UNCHANGED <<attendance, nextId>>
    /\ RaceFrame

\* clock-in: INSERT INTO attendance ...
ClockInRunInsert(s) ==
    /\ reqs[s].kind = "clock-in"
    /\ reqs[s].pc = "insert"
    /\ IF ~ForeignKeyOk(employees, reqs[s].emp)
         THEN /\ Answer(s, 500, "Database error occurred")
              /\ UNCHANGED <<attendance, nextId>>
         ELSE /\ nextId <= MaxRecords
              /\ attendance' = InsertClockIn(attendance, nextId, reqs[s].emp, now)
              /\ nextId' = nextId + 1
              /\ reqs' = [reqs EXCEPT ![s].pc = "reselect", ![s].rec = nextId]
              /\ UNCHANGED res
    /\ RaceFrame

\* clock-in and clock-out: SELECT * FROM attendance WHERE id = ?, then res.json
Reselect(s) ==
    /\ reqs[s].kind \in {"clock-in", "clock-out"}
    /\ reqs[s].pc = "reselect"
    /\ Answer(s, 200, "ok")
    /\ UNCHANGED <<attendance, nextId>>
    /\ RaceFrame

\* clock-out: SELECT ... clock_out IS NULL ORDER BY clock_in DESC LIMIT 1
ClockOutSelectOpen(s) ==
    /\ reqs[s].kind = "clock-out"
    /\ reqs[s].pc = "select_open"
    /\ IF LatestOpenRecords(attendance, reqs[s].emp) = {}
         THEN Answer(s, 400, "No active clock-in found")
         ELSE /\ \E r \in LatestOpenRecords(attendance, reqs[s].emp) :
                    reqs' = [reqs EXCEPT ![s].pc = "update", ![s].rec = r.id]
              /\ UNCHANGED res
    /\ UNCHANGED <<attendance, nextId>>
    /\ RaceFrame

\* clock-out: UPDATE attendance SET clock_out = ..., notes = ? WHERE id = ?
ClockOutRunUpdate(s) ==
    /\ reqs[s].kind = "clock-out"
    /\ reqs[s].pc = "update"
    /\ attendance' = UpdateClockOut(attendance, reqs[s].rec, now,
                                    SanitizeNotes(reqs[s].notes))
    /\ Goto(s, "reselect")
    /\ UNCHANGED <<nextId, res>>
    /\ RaceFrame

\* scan: SELECT * FROM attendance WHERE employee_id = ? AND clock_out IS NULL
ScanSelectOpen(s) ==
    /\ reqs[s].kind = "scan"
    /\ reqs[s].pc = "select_open"
    /\ IF OpenRecords(attendance, reqs[s].emp) /= {}
         THEN \E r \in OpenRecords(attendance, reqs[s].emp) :
                reqs' = [reqs EXCEPT ![s].pc = "update", ![s].rec = r.id]
         ELSE Goto(s, "insert")
    /\ UNCHANGED <<attendance, nextId, res>>
    /\ RaceFrame

\* scan: UPDATE attendance SET clock_out = ..., hours_worked = ... WHERE id = ?
ScanRunUpdate(s) ==
    /\ reqs[s].kind = "scan"
    /\ reqs[s].pc = "update"
    /\ attendance' = UpdateScanOut(attendance, reqs[s].rec, now)
    /\ Answer(s, 200, "clock-out")
    /\ UNCHANGED nextId
    /\ RaceFrame

\* scan: INSERT INTO attendance ...
ScanRunInsert(s) ==
    /\ reqs[s].kind = "scan"
    /\ reqs[s].pc = "insert"
    /\ IF ~ForeignKeyOk(employees, reqs[s].emp)
         THEN /\ Answer(s, 500, "FOREIGN KEY constraint failed")
              /\ UNCHANGED <<attendance, nextId>>
         ELSE /\ nextId <= MaxRecords
              /\ attendance' = InsertClockIn(attendance, nextId, reqs[s].emp, now)
              /\ nextId' = nextId + 1
              /\ Answer(s, 200, "clock-in")
    /\ RaceFrame

RaceTick ==
    /\ now + TickSecs <= ClockLimit
    /\ now' = now + TickSecs
    /\ UNCHANGED <<employees, attendance, nextId, schedules, nextSchedId, reqs, res,
                   tz, query, report, breaks>>

RaceKinds == {"clock-in", "clock-out", "scan"}

RaceNext ==
    \/ \E s \in Slots, k \in RaceKinds, e \in EmpInputs, n \in NoteInputs :
            Arrive(s, k, e, n)
    \/ \E s \in Slots : ClockInSelectEmployee(s)
    \/ \E s \in Slots : ClockInSelectOpen(s)
    \/ \E s \in Slots : ClockInRunInsert(s)
    \/ \E s \in Slots : Reselect(s)
    \/ \E s \in Slots : ClockOutSelectOpen(s)
    \/ \E s \in Slots : ClockOutRunUpdate(s)
    \/ \E s \in Slots : ScanSelectOpen(s)
    \/ \E s \in Slots : ScanRunUpdate(s)
    \/ \E s \in Slots : ScanRunInsert(s)
    \/ RaceTick

\* e1 is registered and active; e2 is not registered.
RaceInit ==
    /\ Init
    /\ employees["e1"] = Registered
    /\ employees["e2"] = Absent

SpecRace == RaceInit /\ [][RaceNext]_vars

----------------------------------------------------------------------------
(* Schedules: the employee_schedules table, the schedule resolver and the   *)
(* POST / DELETE /api/schedules/:employee_id handlers, db step by db step.  *)

\* '09:00', '17:00' and 8 hours (in thousandths of an hour)
DefaultStart == <<"0", "9", ":", "0", "0">>
DefaultEnd == <<"1", "7", ":", "0", "0">>
DefaultExpectedHours == 8 * 1000

ScheduleRow(id, e, start, end, hours) ==
    [id |-> id, employee_id |-> e, start_time |-> start, end_time |-> end,
     expected_hours |-> hours]

Triple(start, end, hours) ==
    [start_time |-> start, end_time |-> end, expected_hours |-> hours]

\* SELECT * FROM employee_schedules WHERE employee_id = ?
ScheduleRows(scheds, e) == {r \in scheds : r.employee_id = e}

\* a || b on a text value: the empty string is falsy
OrText(a, b) == IF a = <<>> THEN b ELSE a

\* a || b on a number: 0 is falsy
OrNumber(a, b) == IF a = 0 THEN b ELSE a

\* schedule?.start_time || '09:00', schedule?.end_time || '17:00',
\* schedule?.expected_hours || 8: what classification and the reports use
EffectiveSchedule(scheds, e) ==
    IF ScheduleRows(scheds, e) = {}
      THEN Triple(DefaultStart, DefaultEnd, DefaultExpectedHours)
      ELSE LET row == CHOOSE r \in ScheduleRows(scheds, e) : TRUE
           IN  Triple(OrText(row.start_time, DefaultStart),
                      OrText(row.end_time, DefaultEnd),
                      OrNumber(row.expected_hours, DefaultExpectedHours))

\* GET /api/schedules/:employee_id (break_hours left out)
GetSchedule(scheds, e) ==
    IF ScheduleRows(scheds, e) = {}
      THEN Triple(DefaultStart, DefaultEnd, DefaultExpectedHours)
      ELSE LET row == CHOOSE r \in ScheduleRows(scheds, e) : TRUE
           IN  Triple(row.start_time, row.end_time, row.expected_hours)

\* Request bodies of POST /api/schedules: expected_hours is Null when the body
\* has none; a start_time of "" stands for a missing one.
ScheduleBody(start, end, hours) ==
    [start_time |-> start, end_time |-> end, expected_hours |-> hours]

ScheduleInputs ==
    { ScheduleBody(<<"0", "8", ":", "3", "0">>, <<"1", "6", ":", "3", "0">>, Some(7125)),
      ScheduleBody(<<"1", "0", ":", "0", "0">>, <<"1", "4", ":", "0", "0">>, Some(0)),
      ScheduleBody(<<>>, DefaultEnd, Some(8000)),
      ScheduleBody(DefaultStart, DefaultEnd, Null) }

\* !start_time || !end_time || expected_hours === undefined
ScheduleBodyRejected(b) ==
    b.start_time = <<>> \/ b.end_time = <<>> \/ b.expected_hours = Null

\* UPDATE employee_schedules SET ... WHERE employee_id = ?
UpdateSchedule(scheds, e, b) ==
    {IF r.employee_id = e
        THEN [r EXCEPT !.start_time = b.start_time, !.end_time = b.end_time,
                       !.expected_hours = Val(b.expected_hours)]
        ELSE r : r \in scheds}

\* employee_id TEXT UNIQUE NOT NULL and the foreign key: whether INSERT succeeds
InsertScheduleOk(scheds, emps, e) ==
    ScheduleRows(scheds, e) = {} /\ ForeignKeyOk(emps, e)

\* INSERT INTO employee_schedules (employee_id, start_time, end_time, expected_hours)
InsertSchedule(scheds, id, e, b) ==
    scheds \cup {ScheduleRow(id, e, b.start_time, b.end_time, Val(b.expected_hours))}

\* DELETE FROM employee_schedules WHERE employee_id = ?
DeleteSchedules(scheds, e) == {r \in scheds : r.employee_id /= e}

SchedRequest(pc, kind, e, b) == [pc |-> pc, kind |-> kind, emp |-> e, body |-> b]

SchedFrame == UNCHANGED <<employees, attendance, nextId, now, tz, query, report, breaks>>

\* POST /api/schedules/:employee_id arrives; the body is validated
PostScheduleArrive(s, e, b) ==
    /\ reqs[s].pc = "idle"
    /\ IF ScheduleBodyRejected(b)
         THEN /\ res' = Response("post-schedule", e, 400,
                              "start_time, end_time, and expected_hours are required")
              /\ UNCHANGED reqs
         ELSE /\ reqs' = [reqs EXCEPT ![s] = SchedRequest("select", "post-schedule", e, b)]
              /\ UNCHANGED res
    /\ UNCHANGED <<schedules, nextSchedId>>
    /\ SchedFrame

\* SELECT id FROM employee_schedules WHERE employee_id = ?
PostScheduleSelect(s) ==
    /\ reqs[s].kind = "post-schedule"
    /\ reqs[s].pc = "select"
    /\ Goto(s, IF ScheduleRows(schedules, reqs[s].emp) /= {} THEN "update" ELSE "insert")
    /\ UNCHANGED <<schedules, nextSchedId, res>>
    /\ SchedFrame

\* the UPDATE branch: db.run reports no error whatever the number of rows changed
PostScheduleUpdate(s) ==
    /\ reqs[s].kind = "post-schedule"
    /\ reqs[s].pc = "update"
    /\ schedules' = UpdateSchedule(schedules, reqs[s].emp, reqs[s].body)
    /\ Goto(s, "reselect")
    /\ UNCHANGED <<nextSchedId, res>>
    /\ SchedFrame

\* the INSERT branch
PostScheduleInsert(s) ==
    /\ reqs[s].kind = "post-schedule"
    /\ reqs[s].pc = "insert"
    /\ IF InsertScheduleOk(schedules, employees, reqs[s].emp)
         THEN /\ nextSchedId <= MaxSchedules
              /\ schedules' = InsertSchedule(schedules, nextSchedId, reqs[s].emp,
                                             reqs[s].body)
              /\ nextSchedId' = nextSchedId + 1
              /\ Goto(s, "reselect")
              /\ UNCHANGED res
         ELSE /\ Answer(s, 500, "Database error occurred")
              /\ UNCHANGED <<schedules, nextSchedId>>
    /\ SchedFrame

\* SELECT * FROM employee_schedules ...; res.json({ success: true, schedule })
PostScheduleReselect(s) ==
    /\ reqs[s].kind = "post-schedule"
    /\ reqs[s].pc = "reselect"
    /\ Answer(s, 200, "success")
    /\ UNCHANGED <<schedules, nextSchedId>>
    /\ SchedFrame

\* DELETE /api/schedules/:employee_id arrives
DeleteScheduleArrive(s, e) ==
    /\ reqs[s].pc = "idle"
    /\ reqs' = [reqs EXCEPT ![s] = SchedRequest("select", "delete-schedule", e, <<>>)]
    /\ UNCHANGED <<schedules, nextSchedId, res>>
    /\ SchedFrame

\* SELECT * FROM employee_schedules WHERE employee_id = ?
DeleteScheduleSelect(s) ==
    /\ reqs[s].kind = "delete-schedule"
    /\ reqs[s].pc = "select"
    /\ IF ScheduleRows(schedules, reqs[s].emp) = {}
         THEN Answer(s, 404, "Schedule not found")
         ELSE Goto(s, "delete") /\ UNCHANGED res
    /\ UNCHANGED <<schedules, nextSchedId>>
    /\ SchedFrame

\* DELETE FROM employee_schedules WHERE employee_id = ?; res.json({ success: true })
DeleteScheduleRun(s) ==
    /\ reqs[s].kind = "delete-schedule"
    /\ reqs[s].pc = "delete"
    /\ schedules' = DeleteSchedules(schedules, reqs[s].emp)
    /\ Answer(s, 200, "success")
    /\ UNCHANGED nextSchedId
    /\ SchedFrame

SchedNext ==
    \/ \E s \in Slots, e \in EmpIds, b \in ScheduleInputs : PostScheduleArrive(s, e, b)
    \/ \E s \in Slots : PostScheduleSelect(s)
    \/ \E s \in Slots : PostScheduleUpdate(s)
    \/ \E s \in Slots : PostScheduleInsert(s)
    \/ \E s \in Slots : PostScheduleReselect(s)
    \/ \E s \in Slots, e \in EmpIds : DeleteScheduleArrive(s, e)
    \/ \E s \in Slots : DeleteScheduleSelect(s)
    \/ \E s \in Slots : DeleteScheduleRun(s)

SpecSched == RaceInit /\ [][SchedNext]_vars

----------------------------------------------------------------------------
(* Dates and times of day *)

\* Number("09") and the like, on a sequence of digits
Digit(c) ==
    CASE c = "0" -> 0 [] c = "1" -> 1 [] c = "2" -> 2 [] c = "3" -> 3 [] c = "4" -> 4
      [] c = "5" -> 5 [] c = "6" -> 6 [] c = "7" -> 7 [] c = "8" -> 8 [] c = "9" -> 9

RECURSIVE Number(_)
Number(s) ==
    IF s = <<>> THEN 0 ELSE 10 * Number(SubSeq(s, 1, Len(s) - 1)) + Digit(s[Len(s)])

\* s.split(':'): the first two parts
RECURSIVE BeforeColon(_)
BeforeColon(s) ==
    IF s = <<>> \/ Head(s) = ":" THEN <<>> ELSE <<Head(s)>> \o BeforeColon(Tail(s))

RECURSIVE AfterColon(_)
AfterColon(s) ==
    IF s = <<>> THEN <<>> ELSE IF Head(s) = ":" THEN Tail(s) ELSE AfterColon(Tail(s))

\* const [expectedHour, expectedMinute] = expectedStartTime.split(':').map(Number)
ParseTime(s) == <<Number(BeforeColon(s)), Number(BeforeColon(AfterColon(s)))>>

\* The calendar date of a local timestamp: SQLite's date(clock_in), and the
\* date part a JavaScript Date built from the timestamp keeps.
DateOf(t) == t \div SecondsPerDay

GetHours(t) == (t % SecondsPerDay) \div SecondsPerHour
GetMinutes(t) == (t % SecondsPerHour) \div 60

\* d = new Date(t); d.setHours(h, m, 0)
SetHours(t, h, m) == DateOf(t) * SecondsPerDay + h * SecondsPerHour + m * 60

DigitChar(n) ==
    CASE n = 0 -> "0" [] n = 1 -> "1" [] n = 2 -> "2" [] n = 3 -> "3" [] n = 4 -> "4"
      [] n = 5 -> "5" [] n = 6 -> "6" [] n = 7 -> "7" [] n = 8 -> "8" [] n = 9 -> "9"

\* String(n).padStart(2, '0') for 0 <= n <= 59
PadStart2(n) == <<DigitChar(n \div 10), DigitChar(n % 10)>>

\* `${hour}:${minute}` of the clock-in
ClockInTimeStr(t) == PadStart2(GetHours(t)) \o <<":">> \o PadStart2(GetMinutes(t))

----------------------------------------------------------------------------
(* The status classifier *)

\* hoursWorked < expectedHours, on elapsed seconds and thousandths of an hour
HoursLess(secs, millis) == 5 * secs < 18 * millis
HoursMore(secs, millis) == 5 * secs > 18 * millis

\* The same difference cut to 2 decimals instead of rounded
HoursOverTruncated(secs, millis) == (5 * secs - 18 * millis) \div 180

\* Math.round((hoursWorked - expectedHours) * 100), in hundredths of an hour
HoursOverCenti(secs, millis) == RoundDiv(5 * secs - 18 * millis, 180)
HoursUnderCenti(secs, millis) == RoundDiv(18 * millis - 5 * secs, 180)

\* clockInDate >= expectedStartDate
LateOrOnTime(clockIn, expectedStartTime) ==
    clockIn >= SetHours(clockIn, ParseTime(expectedStartTime)[1],
                        ParseTime(expectedStartTime)[2])

\* clockInDate > expectedStartDate
LateAgainst(clockIn, expectedStartTime) ==
    clockIn > SetHours(clockIn, ParseTime(expectedStartTime)[1],
                       ParseTime(expectedStartTime)[2])

\* The same minutes cut to whole minutes instead of rounded
LateMinutesFloor(clockIn, expectedStartTime) ==
    (clockIn - SetHours(clockIn, ParseTime(expectedStartTime)[1],
                        ParseTime(expectedStartTime)[2])) \div 60

\* Math.round((clockInDate - expectedStartDate) / (1000 * 60))
LateMinutes(clockIn, expectedStartTime) ==
    RoundDiv(clockIn - SetHours(clockIn, ParseTime(expectedStartTime)[1],
                                ParseTime(expectedStartTime)[2]), 60)

detectAttendanceStatus(clockInTime, clockOutTime, expectedStartTime, expectedEndTime, expectedHours) ==
    LET elapsed == clockOutTime - clockInTime
        late == LateAgainst(clockInTime, expectedStartTime)
        under == HoursLess(elapsed, expectedHours)
        over == HoursMore(elapsed, expectedHours)
    IN  [isLate |-> late,
         isUndertime |-> under,
         isOvertime |-> over,
         clockInTime |-> ClockInTimeStr(clockInTime),
         hoursWorked |-> RoundDiv(elapsed, 36),
         expectedHours |-> expectedHours,
         lateMinutes |-> IF late THEN LateMinutes(clockInTime, expectedStartTime) ELSE 0,
         undertimeHours |-> IF under THEN HoursUnderCenti(elapsed, expectedHours) ELSE 0,
         overtimeHours |-> IF over THEN HoursOverCenti(elapsed, expectedHours) ELSE 0]

----------------------------------------------------------------------------
(* The reports that classify records *)

\* ORDER BY clock_in (rows of equal clock_in in rowid order)
RECURSIVE OrderByClockIn(_)
OrderByClockIn(rows) ==
    IF rows = {} THEN <<>>
    ELSE LET first == CHOOSE r \in rows :
                        \A o \in rows :
                            \/ r.clock_in < o.clock_in
                            \/ (r.clock_in = o.clock_in /\ r.id <= o.id)
         IN  <<first>> \o OrderByClockIn(rows \ {first})

\* ORDER BY clock_in DESC
RECURSIVE OrderByClockInDesc(_)
OrderByClockInDesc(rows) ==
    IF rows = {} THEN <<>>
    ELSE LET first == CHOOSE r \in rows :
                        \A o \in rows :
                            \/ r.clock_in > o.clock_in
                            \/ (r.clock_in = o.clock_in /\ r.id <= o.id)
         IN  <<first>> \o OrderByClockInDesc(rows \ {first})

\* WHERE employee_id = ? AND date(clock_in) >= date(?) AND date(clock_in) <= date(?)
RecordsInRange(att, e, startDate, endDate) ==
    {r \in att : /\ r.employee_id = e
                 /\ DateOf(r.clock_in) >= startDate
                 /\ DateOf(r.clock_in) <= endDate}

\* new Date(r.clock_in).toISOString().split('T')[0]: the UTC date of the instant
IsoDateOfLocal(t, offset) == DateOf(t - offset)

\* GET /api/attendance-status/:employee_id, one element of statusRecords
StatusRecord(r, sch) ==
    IF r.clock_out = Null
      THEN [id |-> r.id, clock_in |-> r.clock_in, clock_out |-> r.clock_out,
            isLate |-> LateAgainst(r.clock_in, sch.start_time),
            lateMinutes |-> IF LateAgainst(r.clock_in, sch.start_time)
                              THEN LateMinutes(r.clock_in, sch.start_time) ELSE 0,
            isUndertime |-> FALSE, undertimeHours |-> 0,
            isOvertime |-> FALSE, overtimeHours |-> 0,
            clockInTime |-> ClockInTimeStr(r.clock_in),
            hoursWorked |-> 0]
      ELSE [id |-> r.id, clock_in |-> r.clock_in, clock_out |-> r.clock_out]
             @@ detectAttendanceStatus(r.clock_in, Val(r.clock_out), sch.start_time,
                                       sch.end_time, sch.expected_hours)

\* the attendance summary handler (registered as PUT /api/employees/:employee_id
\* with start_date and end_date), one element of detailedRecords
SummaryRecord(r, sch) ==
    IF r.clock_out = Null
      THEN [id |-> r.id, clock_in |-> r.clock_in, clock_out |-> r.clock_out,
            status |-> "incomplete",
            isLate |-> FALSE, isUndertime |-> FALSE, isOvertime |-> FALSE]
      ELSE [id |-> r.id, clock_in |-> r.clock_in, clock_out |-> r.clock_out,
            status |-> "completed"]
             @@ detectAttendanceStatus(r.clock_in, Val(r.clock_out), sch.start_time,
                                       sch.end_time, sch.expected_hours)

\* GET /api/reports/payroll-breakdown/:employee_id, one element of breakdown
BreakdownRecord(r, sch, offset) ==
    LET s == detectAttendanceStatus(r.clock_in, Val(r.clock_out), sch.start_time,
                                    sch.end_time, sch.expected_hours)
    IN  IF r.clock_out /= Null
          THEN [date |-> IsoDateOfLocal(r.clock_in, offset),
                hoursWorked |-> s.hoursWorked,
                status |-> [late |-> s.isLate, undertime |-> s.isUndertime,
                            overtime |-> s.isOvertime]]
          ELSE [date |-> IsoDateOfLocal(r.clock_in, offset),
                hoursWorked |-> 0,
                status |-> [late |-> LateAgainst(r.clock_in, sch.start_time),
                            undertime |-> FALSE, overtime |-> FALSE]]

\* GET /api/summary/:id, one element of summary
SummaryViewRecord(r, sch, offset) ==
    LET s == detectAttendanceStatus(r.clock_in, Val(r.clock_out), sch.start_time,
                                    sch.end_time, sch.expected_hours)
    IN  IF r.clock_out /= Null
          THEN [date |-> IsoDateOfLocal(r.clock_in, offset),
                clock_in |-> r.clock_in, clock_out |-> r.clock_out,
                hoursWorked |-> s.hoursWorked,
                status |-> [late |-> s.isLate, undertime |-> s.isUndertime,
                            overtime |-> s.isOvertime]]
          ELSE [date |-> IsoDateOfLocal(r.clock_in, offset),
                clock_in |-> r.clock_in, clock_out |-> r.clock_out,
                hoursWorked |-> 0,
                status |-> [late |-> LateAgainst(r.clock_in, sch.start_time),
                            undertime |-> FALSE, overtime |-> FALSE]]

RangeMissing(q) == q.start_date = Null \/ q.end_date = Null

ErrorReport(kind, status) == [kind |-> kind, status |-> status, records |-> <<>>]

StateUnchanged ==
    UNCHANGED <<employees, attendance, nextId, schedules, nextSchedId, now, reqs, res,
                tz, query, breaks>>

\* GET /api/attendance-status/:employee_id (the records of the answer)
GetAttendanceStatus ==
    /\ report' =
         IF RangeMissing(query) THEN ErrorReport("attendance-status", 400)
         ELSE LET sch == EffectiveSchedule(schedules, query.employee_id)
                  rows == OrderByClockInDesc(RecordsInRange(attendance, query.employee_id,
                              Val(query.start_date), Val(query.end_date)))
                  Row(r) == StatusRecord(r, sch)
              IN  [kind |-> "attendance-status", status |-> 200,
                   records |-> [i \in 1..Len(rows) |-> Row(rows[i])]]
    /\ StateUnchanged

\* the attendance summary handler (the records of the answer)
AttendanceSummaryAnswer(q, emps, att, scheds) ==
    IF RangeMissing(q) THEN ErrorReport("attendance-summary", 400)
    ELSE IF ~ForeignKeyOk(emps, q.employee_id)
      THEN ErrorReport("attendance-summary", 404)
    ELSE LET sch == EffectiveSchedule(scheds, q.employee_id)
             rows == OrderByClockInDesc(RecordsInRange(att, q.employee_id,
                         Val(q.start_date), Val(q.end_date)))
             Row(r) == SummaryRecord(r, sch)
         IN  [kind |-> "attendance-summary", status |-> 200,
              records |-> [i \in 1..Len(rows) |-> Row(rows[i])]]

GetAttendanceSummary ==
    /\ report' = AttendanceSummaryAnswer(query, employees, attendance, schedules)
    /\ StateUnchanged

\* const hourlyRate = rate ? Number(rate) : 70, in hundredths of a currency unit;
\* rate is absent or a numeric string
DefaultHourlyRate == 70 * 100

HourlyRate(q) == IF q.rate = Null THEN DefaultHourlyRate ELSE Val(q.rate)

\* totalHours += hoursWorked over the mapped records, in hundredths of an hour
RECURSIVE SumHoursWorked(_)
SumHoursWorked(entries) ==
    IF entries = <<>> THEN 0
    ELSE Head(entries).hoursWorked + SumHoursWorked(Tail(entries))

\* The same product cut to 2 decimals instead of rounded
PayrollAmountTruncated(totalCenti, rateCenti) == (totalCenti * rateCenti) \div 100

\* Math.round(totalHours * hourlyRate * 100) / 100, in hundredths
PayrollAmount(totalCenti, rateCenti) == RoundDiv(totalCenti * rateCenti, 100)

\* GET /api/reports/payroll-breakdown/:employee_id
PayrollBreakdownAnswer(q, att, scheds, offset) ==
    IF RangeMissing(q) THEN ErrorReport("payroll-breakdown", 400)
    ELSE LET sch == EffectiveSchedule(scheds, q.employee_id)
             rows == OrderByClockIn(RecordsInRange(att, q.employee_id,
                         Val(q.start_date), Val(q.end_date)))
             breakdown == [i \in 1..Len(rows) |-> BreakdownRecord(rows[i], sch, offset)]
         IN  [kind |-> "payroll-breakdown", status |-> 200,
              employee_id |-> q.employee_id,
              totalHours |-> SumHoursWorked(breakdown),
              payrollAmount |-> PayrollAmount(SumHoursWorked(breakdown), HourlyRate(q)),
              records |-> breakdown]

GetPayrollBreakdown ==
    /\ report' = PayrollBreakdownAnswer(query, attendance, schedules, tz)
    /\ StateUnchanged

\* GET /api/payroll-summary/:id: start_date and end_date each filter only when given
RecordsInOptionalRange(att, e, startDate, endDate) ==
    {r \in att : /\ r.employee_id = e
                 /\ startDate /= Null => DateOf(r.clock_in) >= Val(startDate)
                 /\ endDate /= Null => DateOf(r.clock_in) <= Val(endDate)}

PayrollSummaryViewAnswer(q, att, scheds, offset) ==
    LET sch == EffectiveSchedule(scheds, q.employee_id)
        rows == OrderByClockIn(RecordsInOptionalRange(att, q.employee_id,
                    q.start_date, q.end_date))
        breakdown == [i \in 1..Len(rows) |-> BreakdownRecord(rows[i], sch, offset)]
    IN  [kind |-> "payroll-summary-view", status |-> 200,
         totalDaysWorked |-> Len(breakdown),
         totalHours |-> SumHoursWorked(breakdown),
         hourlyRate |-> HourlyRate(q),
         payrollAmount |-> PayrollAmount(SumHoursWorked(breakdown), HourlyRate(q)),
         records |-> breakdown]

\* GET /api/summary/:id: every record of the employee, no date range
GetSummaryView ==
    /\ report' =
         LET sch == EffectiveSchedule(schedules, query.employee_id)
             rows == OrderByClockIn({r \in attendance :
                                        r.employee_id = query.employee_id})
             Row(r) == SummaryViewRecord(r, sch, tz)
         IN  [kind |-> "summary-view", status |-> 200, records |-> [i \in 1..Len(rows) |-> Row(rows[i])]]
    /\ StateUnchanged

\* Clock-in instants and elapsed times the stored records are drawn from.
ClockInTimes ==
    { 8 * SecondsPerHour + 30 * 60,
      9 * SecondsPerHour,
      9 * SecondsPerHour + 20,
      9 * SecondsPerHour + 60,
      9 * SecondsPerHour + 15 * 60,
      SecondsPerDay + 8 * SecondsPerHour + 31 * 60 }

ElapsedTimes ==
    { 8 * SecondsPerHour,
      8 * SecondsPerHour - 10,
      8 * SecondsPerHour + 15 * 60,
      8 * SecondsPerHour + 22,
      7 * SecondsPerHour + 7 * 60 + 30,
      7 * SecondsPerHour + 20 * 60,
      16 * SecondsPerHour }

StoredRecords ==
    {<<cin, Null, Null>> : cin \in ClockInTimes}
      \cup {<<cin, Some(cin + el), Some(HoursCenti(el))>> :
                cin \in ClockInTimes, el \in ElapsedTimes}

\* Schedule rows an employee may have: each is a body POST /api/schedules accepts.
StoredSchedules ==
    {b \in ScheduleInputs : ~ScheduleBodyRejected(b)}
      \cup {ScheduleBody(DefaultStart, DefaultEnd, Some(8000)),
            ScheduleBody(<<"0", "8", ":", "3", "0">>, <<"1", "5", ":", "5", "0">>,
                         Some(7333))}

ClassifyInit ==
    /\ employees = [e \in EmpIds |-> IF e = "e1" THEN Registered ELSE Absent]
    /\ \E f \in [1..MaxStored -> StoredRecords] :
          attendance = {AttendanceRow(i, "e1", f[i][1], f[i][2], f[i][3], Null) :
                            i \in 1..MaxStored}
    /\ nextId = MaxStored + 1
    /\ schedules \in
          {{}} \cup {{ScheduleRow(1, "e1", b.start_time, b.end_time, Val(b.expected_hours))} :
                        b \in StoredSchedules}
    /\ nextSchedId = 2
    /\ now = 2 * SecondsPerDay
    /\ reqs = [s \in Slots |-> IdleRequest]
    /\ res = NoResponse
    /\ tz = 0
    /\ query = [kind |-> "range", employee_id |-> "e1",
                start_date |-> Some(0), end_date |-> Some(1), rate |-> Null]
    /\ report = NoReport
    /\ breaks = {}

ClassifyNext ==
    \/ GetAttendanceStatus
    \/ GetAttendanceSummary
    \/ GetPayrollBreakdown
    \/ GetSummaryView

SpecClassify == ClassifyInit /\ [][ClassifyNext]_vars

----------------------------------------------------------------------------
(* The exception detector *)

\* A calendar date is a day number, day 0 being Monday 2025-12-01.  An instant
\* is in seconds from 2025-12-01T00:00:00Z; tz is the host's offset from UTC.
TzOffsets == {0 - 5 * SecondsPerHour, 0, 8 * SecondsPerHour}

Deactivated == [exists |-> TRUE, active |-> 0]

\* new Date('YYYY-MM-DD'): midnight UTC of the date
ParseIsoDate(d) == d * SecondsPerDay

\* d.getDay(): the weekday of the host's local date, 0 for Sunday
GetDay(instant, offset) == (DateOf(instant + offset) + 1) % 7

\* d.toISOString().split('T')[0]: the UTC date
ToIsoDate(instant) == DateOf(instant)

\* for (d = new Date(startDateObj); d <= endDateObj; d.setDate(d.getDate() + 1))
RECURSIVE ExpectedDates(_, _, _)
ExpectedDates(d, endDateObj, offset) ==
    IF d > endDateObj THEN <<>>
    ELSE (IF GetDay(d, offset) /= 0 /\ GetDay(d, offset) /= 6
            THEN <<ToIsoDate(d)>> ELSE <<>>)
           \o ExpectedDates(d + SecondsPerDay, endDateObj, offset)

\* SELECT date(clock_in) ... GROUP BY date(clock_in), as a Set
AttendedDates(att, e, startDate, endDate) ==
    {DateOf(r.clock_in) : r \in RecordsInRange(att, e, startDate, endDate)}

MissingDay(e, d, offset) ==
    [employee_id |-> e, missing_date |-> d,
     day_of_week |-> GetDay(ParseIsoDate(d), offset)]

\* expectedDates.filter(dt => !attendedSet.has(dt)).map(...)
MissingDaysOf(e, expected, attended, offset) ==
    LET Missed(d) == d \notin attended
        missed == SelectSeq(expected, Missed)
    IN  [i \in 1..Len(missed) |-> MissingDay(e, missed[i], offset)]

\* SELECT employee_id, name FROM employees WHERE active = 1 (in rowid order)
EmpOrder == <<"e1", "e2">>

\* The same list without WHERE active = 1
RegisteredEmployees(emps) ==
    LET IsThere(e) == emps[e].exists
    IN  SelectSeq(EmpOrder, IsThere)

ActiveEmployees(emps) ==
    LET IsActive(e) == emps[e].exists /\ emps[e].active = 1
    IN  SelectSeq(EmpOrder, IsActive)

RECURSIVE MissingDaysAll(_, _, _, _, _, _)
MissingDaysAll(emps, att, expected, startDate, endDate, offset) ==
    IF emps = <<>> THEN <<>>
    ELSE MissingDaysOf(Head(emps), expected,
                       AttendedDates(att, Head(emps), startDate, endDate), offset)
           \o MissingDaysAll(Tail(emps), att, expected, startDate, endDate, offset)

IncompleteRecord(r) ==
    [id |-> r.id, employee_id |-> r.employee_id, clock_in |-> r.clock_in,
     work_date |-> DateOf(r.clock_in)]

\* SELECT ... FROM attendance a JOIN employees e ... WHERE a.clock_out IS NULL ...
IncompleteInRange(att, emps, who, startDate, endDate) ==
    LET rows == OrderByClockInDesc({r \in att : /\ r.employee_id \in who
                                                 /\ ForeignKeyOk(emps, r.employee_id)
                                                 /\ r.clock_out = Null
                                                 /\ DateOf(r.clock_in) >= startDate
                                                 /\ DateOf(r.clock_in) <= endDate})
    IN  [i \in 1..Len(rows) |-> IncompleteRecord(rows[i])]

SeqRange(s) == {s[i] : i \in 1..Len(s)}

DetectorReport(kind, expected, incomplete, missing, issues) ==
    [kind |-> kind, status |-> 200,
     expected_work_days |-> Len(expected),
     total_incomplete_records |-> Len(incomplete),
     total_missing_days |-> Len(missing),
     employees_with_issues |-> issues,
     incomplete_records |-> incomplete,
     missing_days |-> missing]

\* The entries of the two lists counted instead of their employees
IssuesCounted(incomplete, missing) == Len(incomplete) + Len(missing)

\* new Set([...incompleteRecords.map(r => r.employee_id),
\*          ...missingDays.map(r => r.employee_id)]).size
EmployeesWithIssues(incomplete, missing) ==
    Cardinality({x.employee_id : x \in SeqRange(incomplete)}
                  \cup {x.employee_id : x \in SeqRange(missing)})

\* GET /api/reports/errors-and-missing
GetErrorsAndMissing ==
    /\ report' =
         IF RangeMissing(query) THEN ErrorReport("errors-and-missing", 400)
         ELSE LET startDate == Val(query.start_date)
                  endDate == Val(query.end_date)
                  expected == ExpectedDates(ParseIsoDate(startDate),
                                            ParseIsoDate(endDate), tz)
                  incomplete == IncompleteInRange(attendance, employees, EmpIds,
                                                  startDate, endDate)
                  missing == MissingDaysAll(ActiveEmployees(employees), attendance,
                                            expected, startDate, endDate, tz)
              IN  DetectorReport("errors-and-missing", expected, incomplete, missing,
                                 EmployeesWithIssues(incomplete, missing))
    /\ StateUnchanged

\* GET /api/reports/errors-and-missing/:employee_id
GetErrorsAndMissingFor ==
    /\ report' =
         IF RangeMissing(query) THEN ErrorReport("errors-and-missing-for", 400)
         ELSE IF ~ForeignKeyOk(employees, query.employee_id)
           THEN ErrorReport("errors-and-missing-for", 404)
         ELSE LET e == query.employee_id
                  startDate == Val(query.start_date)
                  endDate == Val(query.end_date)
                  expected == ExpectedDates(ParseIsoDate(startDate),
                                            ParseIsoDate(endDate), tz)
                  incomplete == IncompleteInRange(attendance, employees, {e},
                                                  startDate, endDate)
                  missing == MissingDaysOf(e, expected,
                                 AttendedDates(attendance, e, startDate, endDate), tz)
              IN  DetectorReport("errors-and-missing-for", expected, incomplete, missing,
                      IF Len(incomplete) > 0 \/ Len(missing) > 0 THEN 1 ELSE 0)
    /\ StateUnchanged

----------------------------------------------------------------------------
(* The all-employee payroll summary *)

RECURSIVE SumSeq(_)
SumSeq(s) == IF s = <<>> THEN 0 ELSE Head(s) + SumSeq(Tail(s))

\* A null hours_worked counted as one hundredth
NullHoursAsOne(r) == IF r.hours_worked = Null THEN 1 ELSE Val(r.hours_worked)

\* record.hours_worked || 0
HoursOrZero(r) == IF r.hours_worked = Null THEN 0 ELSE Val(r.hours_worked)

\* one element of employeeSummaries
EmployeeSummary(e, att, scheds, startDate, endDate, expectedWorkDays) ==
    LET sch == EffectiveSchedule(scheds, e)
        records == RecordsInRange(att, e, startDate, endDate)
        completed == OrderByClockIn({r \in records : r.clock_out /= Null})
        totalHours == SumSeq([i \in 1..Len(completed) |-> HoursOrZero(completed[i])])
        actualWorkDays == Cardinality({DateOf(r.clock_in) : r \in records})
        Status(r) == detectAttendanceStatus(r.clock_in, Val(r.clock_out), sch.start_time,
                                            sch.end_time, sch.expected_hours)
        done == {r \in records : r.clock_out /= Null}
    IN  [employee_id |-> e,
         total_records |-> Cardinality(records),
         completed_records |-> Len(completed),
         incomplete_records |-> Cardinality({r \in records : r.clock_out = Null}),
         actual_work_days |-> actualWorkDays,
         expected_work_days |-> expectedWorkDays,
         missing_days |-> expectedWorkDays - actualWorkDays,
         total_hours_worked |-> totalHours,
         expected_total_hours |-> RoundDiv(expectedWorkDays * sch.expected_hours, 10),
         hours_variance |-> RoundDiv(10 * totalHours - expectedWorkDays * sch.expected_hours, 10),
         late_count |-> Cardinality({r \in done : Status(r).isLate}),
         undertime_count |-> Cardinality({r \in done : Status(r).isUndertime}),
         overtime_count |-> Cardinality({r \in done : Status(r).isOvertime}),
         attendance_rate |-> IF expectedWorkDays > 0
                               THEN RoundDiv(actualWorkDays * 100, expectedWorkDays)
                               ELSE 0,
         expected_hours_per_day |-> sch.expected_hours]

\* GET /api/reports/payroll-summary
GetPayrollSummary ==
    /\ report' =
         IF RangeMissing(query) THEN ErrorReport("payroll-summary", 400)
         ELSE LET startDate == Val(query.start_date)
                  endDate == Val(query.end_date)
                  expectedWorkDays == Len(ExpectedDates(ParseIsoDate(startDate),
                                                        ParseIsoDate(endDate), tz))
                  emps == ActiveEmployees(employees)
                  summaries == [i \in 1..Len(emps) |->
                                   EmployeeSummary(emps[i], attendance, schedules,
                                                   startDate, endDate, expectedWorkDays)]
              IN  [kind |-> "payroll-summary", status |-> 200,
                   expected_work_days |-> expectedWorkDays,
                   totals |->
                     [total_employees |-> Len(emps),
                      total_hours_worked |->
                         SumSeq([i \in 1..Len(emps) |-> summaries[i].total_hours_worked]),
                      total_expected_hours |->
                         SumSeq([i \in 1..Len(emps) |-> summaries[i].expected_total_hours]),
                      total_incomplete_records |->
                         SumSeq([i \in 1..Len(emps) |-> summaries[i].incomplete_records]),
                      total_missing_days |->
                         SumSeq([i \in 1..Len(emps) |-> summaries[i].missing_days]),
                      average_attendance_rate |->
                         IF Len(emps) > 0
                           THEN RoundDiv(SumSeq([i \in 1..Len(emps) |->
                                                    summaries[i].attendance_rate]), Len(emps))
                           ELSE 0],
                   employees |-> summaries]
    /\ StateUnchanged

\* Stores the reports are run on: no rows, an open record, completed records, a
\* record on a Saturday.
DetectStores ==
    { {},
      {AttendanceRow(1, "e1", SecondsPerDay + 9 * SecondsPerHour, Null, Null, Null)},
      {AttendanceRow(1, "e1", 2 * SecondsPerDay + 9 * SecondsPerHour,
                     Some(2 * SecondsPerDay + 17 * SecondsPerHour), Some(800), Null),
       AttendanceRow(2, "e2", 9 * SecondsPerHour,
                     Some(17 * SecondsPerHour), Some(800), Null)},
      {AttendanceRow(1, "e1", 5 * SecondsPerDay + 9 * SecondsPerHour,
                     Some(5 * SecondsPerDay + 13 * SecondsPerHour), Some(400), Null)} }

DetectInit ==
    /\ employees \in [EmpIds -> {Absent, Registered, Deactivated}]
    /\ attendance \in {att \in DetectStores :
                          \A r \in att : ForeignKeyOk(employees, r.employee_id)}
    /\ nextId = 3
    /\ schedules = {}
    /\ nextSchedId = 1
    /\ now = (MaxDay + 1) * SecondsPerDay
    /\ reqs = [s \in Slots |-> IdleRequest]
    /\ res = NoResponse
    /\ tz \in TzOffsets
    /\ \E e \in EmpIds, s \in {Null} \cup {Some(d) : d \in 0..MaxDay}, t \in 0..MaxDay :
          query = [kind |-> "range", employee_id |-> e,
                   start_date |-> s, end_date |-> Some(t)]
    /\ report = NoReport
    /\ breaks = {}

DetectNext ==
    \/ GetErrorsAndMissing
    \/ GetErrorsAndMissingFor
    \/ GetPayrollSummary

SpecDetect == DetectInit /\ [][DetectNext]_vars

----------------------------------------------------------------------------
(* The work-hours aggregators *)

\* SELECT date(clock_in) as work_date, COUNT(*), ROUND(SUM(COALESCE(hours_worked, 0)), 2),
\* COUNT(CASE WHEN clock_out IS NULL THEN 1 END) ... GROUP BY date(clock_in): one row
DayRow(att, e, d) ==
    LET rows == {r \in att : r.employee_id = e /\ DateOf(r.clock_in) = d}
        ordered == OrderByClockIn(rows)
    IN  [work_date |-> d,
         records_count |-> Cardinality(rows),
         daily_hours |-> SumSeq([i \in 1..Len(ordered) |-> HoursOrZero(ordered[i])]),
         incomplete_count |-> Cardinality({r \in rows : r.clock_out = Null})]

\* ... WHERE date(clock_in) >= date(lo) AND date(clock_in) <= date(hi) ORDER BY work_date
RECURSIVE DailySummary(_, _, _, _)
DailySummary(att, e, lo, hi) ==
    IF lo > hi THEN <<>>
    ELSE (IF \E r \in att : r.employee_id = e /\ DateOf(r.clock_in) = lo
            THEN <<DayRow(att, e, lo)>> ELSE <<>>)
           \o DailySummary(att, e, lo + 1, hi)

RECURSIVE SumDailyHours(_)
SumDailyHours(days) ==
    IF days = <<>> THEN 0 ELSE Head(days).daily_hours + SumDailyHours(Tail(days))

\* The same average cut to 2 decimals instead of rounded
AverageTruncated(days) ==
    IF Len(days) > 0 THEN SumDailyHours(days) \div Len(days) ELSE 0

\* Math.round(averageHoursPerDay * 100) / 100 with the guard against no days
AverageHoursPerDay(days) ==
    IF Len(days) > 0 THEN RoundDiv(SumDailyHours(days), Len(days)) ELSE 0

\* GET /api/work-hours/daily/:employee_id
GetWorkHoursDaily ==
    /\ report' =
         IF query.date = Null THEN ErrorReport("work-hours-daily", 400)
         ELSE LET records == OrderByClockIn({r \in attendance :
                                 /\ r.employee_id = query.employee_id
                                 /\ DateOf(r.clock_in) = Val(query.date)})
              IN  [kind |-> "work-hours-daily", status |-> 200,
                   total_hours |-> SumSeq([i \in 1..Len(records) |-> HoursOrZero(records[i])]),
                   total_records |-> Len(records),
                   completed_records |->
                      Cardinality({i \in 1..Len(records) : records[i].clock_out /= Null}),
                   incomplete_records |->
                      Cardinality({i \in 1..Len(records) : records[i].clock_out = Null}),
                   records |-> records]
    /\ StateUnchanged

\* startDateObj.setDate(startDateObj.getDate() + 6); toISOString().split('T')[0]
WeekEndDate(q) ==
    IF q.end_date /= Null THEN Val(q.end_date)
    ELSE ToIsoDate(ParseIsoDate(Val(q.start_date)) + 6 * SecondsPerDay)

\* GET /api/work-hours/weekly/:employee_id
GetWorkHoursWeekly ==
    /\ report' =
         IF query.start_date = Null THEN ErrorReport("work-hours-weekly", 400)
         ELSE LET days == DailySummary(attendance, query.employee_id,
                                       Val(query.start_date), WeekEndDate(query))
              IN  [kind |-> "work-hours-weekly", status |-> 200,
                   week_start |-> Val(query.start_date),
                   week_end |-> WeekEndDate(query),
                   total_hours |-> SumDailyHours(days),
                   days_worked |-> Len(days),
                   average_hours_per_day |-> AverageHoursPerDay(days),
                   daily_breakdown |-> days]
    /\ StateUnchanged

\* The calendar around December 2025: the day number of the first of a month
\* (date('YYYY-MM-01')) and the day of the month of a day number.
MonthStarts == {0 - 61, 0 - 30, 0, 31, 62}

FirstOfMonth(year, month) ==
    LET k == (year - 2025) * 12 + month - 12
    IN  CASE k = 0 - 2 -> 0 - 61 [] k = 0 - 1 -> 0 - 30 [] k = 0 -> 0 [] k = 1 -> 31 [] k = 2 -> 62

DayOfMonth(d) ==
    d - (CHOOSE s \in MonthStarts : s <= d /\ \A o \in MonthStarts : o <= d => o <= s) + 1

\* new Date(day.work_date).getDate(): the local day of the month; Math.ceil(... / 7)
WeekNum(workDate, offset) ==
    (DayOfMonth(DateOf(ParseIsoDate(workDate) + offset)) + 6) \div 7

\* weeklyData: days and hours of every 'Week N' that has a worked day
WeeklyData(days, offset) ==
    LET weeks == {WeekNum(days[i].work_date, offset) : i \in 1..Len(days)}
        Of(n) == SelectSeq(days, LAMBDA day : WeekNum(day.work_date, offset) = n)
    IN  [n \in weeks |-> [days |-> Len(Of(n)), hours |-> SumDailyHours(Of(n))]]

\* GET /api/work-hours/monthly/:employee_id
GetWorkHoursMonthly ==
    /\ report' =
         IF query.year = Null \/ query.month = Null
           THEN ErrorReport("work-hours-monthly", 400)
         ELSE LET year == Val(query.year)
                  month == Val(query.month)
                  nextMonth == IF month = 12 THEN 1 ELSE month + 1
                  nextYear == IF month = 12 THEN year + 1 ELSE year
                  days == DailySummary(attendance, query.employee_id,
                                       FirstOfMonth(year, month),
                                       FirstOfMonth(nextYear, nextMonth) - 1)
              IN  [kind |-> "work-hours-monthly", status |-> 200,
                   year |-> year, month |-> month,
                   total_hours |-> SumDailyHours(days),
                   days_worked |-> Len(days),
                   average_hours_per_day |-> AverageHoursPerDay(days),
                   weekly_summary |-> WeeklyData(days, tz),
                   daily_breakdown |-> days]
    /\ StateUnchanged

\* scheduleMap[emp.employee_id] after schedules.forEach(s => scheduleMap[s.employee_id] = s):
\* the employee's last row in rowid order
LastScheduleRow(scheds, e) ==
    CHOOSE r \in ScheduleRows(scheds, e) : \A o \in ScheduleRows(scheds, e) : o.id <= r.id

\* One row of the LEFT JOIN ... GROUP BY e.employee_id with its enrichment. An
\* employee without attendance in range keeps one joined row of nulls, which
\* COUNT(CASE WHEN a.clock_out IS NULL THEN 1 END) counts.
WorkHoursSummaryRow(att, scheds, e, lo, hi) ==
    LET rows == {r \in att : /\ r.employee_id = e
                             /\ DateOf(r.clock_in) >= lo
                             /\ DateOf(r.clock_in) <= hi}
        ordered == OrderByClockIn(rows)
        daysWorked == Cardinality({DateOf(r.clock_in) : r \in rows})
        totalHours == SumSeq([i \in 1..Len(ordered) |-> HoursOrZero(ordered[i])])
        expectedHours == IF ScheduleRows(scheds, e) = {} THEN DefaultExpectedHours
                         ELSE OrNumber(LastScheduleRow(scheds, e).expected_hours,
                                       DefaultExpectedHours)
        expectedTotalHours == daysWorked * expectedHours
    IN  [employee_id |-> e,
         days_worked |-> daysWorked,
         total_hours |-> totalHours,
         avg_hours_per_day |-> IF rows = {} THEN 0 ELSE RoundDiv(totalHours, Cardinality(rows)),
         incomplete_records |-> IF rows = {} THEN 1
                                ELSE Cardinality({r \in rows : r.clock_out = Null}),
         expected_hours_per_day |-> expectedHours,
         expected_total_hours |-> RoundDiv(expectedTotalHours, 10),
         hours_variance |-> RoundDiv(10 * totalHours - expectedTotalHours, 10),
         compliance_percentage |-> IF expectedTotalHours > 0
                                     THEN RoundDiv(100 * 10 * totalHours, expectedTotalHours)
                                     ELSE 0]

\* GET /api/work-hours/summary
GetWorkHoursSummary ==
    /\ report' =
         IF query.start_date = Null \/ query.end_date = Null
           THEN ErrorReport("work-hours-summary", 400)
         ELSE LET emps == ActiveEmployees(employees)
                  enrichedSummary ==
                      [i \in 1..Len(emps) |->
                          WorkHoursSummaryRow(attendance, schedules, emps[i],
                                              Val(query.start_date), Val(query.end_date))]
              IN  [kind |-> "work-hours-summary", status |-> 200,
                   total_employees |-> Len(enrichedSummary),
                   employees |-> enrichedSummary]
    /\ StateUnchanged

\* record.hours_worked > expectedHours, on hundredths and thousandths of an hour
ExceedsExpectedHours(hoursWorked, expectedHours) == 10 * hoursWorked > expectedHours

\* record.hours_worked >= expectedHours
MeetsExpectedHours(hoursWorked, expectedHours) == 10 * hoursWorked >= expectedHours

\* comparisonData: one element
ComparisonRow(record, sch) ==
    LET startVarianceMinutes == LateMinutes(record.clock_in, sch.start_time)
        isOnTime == startVarianceMinutes <= 0
        meetsExpectedHours == MeetsExpectedHours(HoursOrZero(record), sch.expected_hours)
    IN  [date |-> DateOf(record.clock_in),
         actual_start |-> ClockInTimeStr(record.clock_in),
         actual_end |-> ClockInTimeStr(Val(record.clock_out)),
         actual_hours |-> record.hours_worked,
         start_minutes |-> startVarianceMinutes,
         hours_variance |-> RoundDiv(10 * HoursOrZero(record) - sch.expected_hours, 10),
         on_time |-> isOnTime,
         meets_expected_hours |-> meetsExpectedHours,
         overall |-> isOnTime /\ meetsExpectedHours]

\* totalDays > 0 ? Math.round((days / totalDays) * 100) : 0
Percentage(days, totalDays) == IF totalDays > 0 THEN RoundDiv(100 * days, totalDays) ELSE 0

\* GET /api/schedule-comparison/:employee_id
GetScheduleComparison ==
    /\ report' =
         IF query.start_date = Null \/ query.end_date = Null
           THEN ErrorReport("schedule-comparison", 400)
         ELSE LET sch == EffectiveSchedule(schedules, query.employee_id)
                  records == OrderByClockIn({r \in attendance :
                                 /\ r.employee_id = query.employee_id
                                 /\ DateOf(r.clock_in) >= Val(query.start_date)
                                 /\ DateOf(r.clock_in) <= Val(query.end_date)
                                 /\ r.clock_out /= Null})
                  comparisonData == [i \in 1..Len(records) |-> ComparisonRow(records[i], sch)]
                  totalDays == Len(comparisonData)
                  onTimeDays == Cardinality({i \in 1..totalDays : comparisonData[i].on_time})
                  meetsHoursDays ==
                      Cardinality({i \in 1..totalDays : comparisonData[i].meets_expected_hours})
                  fullComplianceDays ==
                      Cardinality({i \in 1..totalDays : comparisonData[i].overall})
              IN  [kind |-> "schedule-comparison", status |-> 200,
                   expected_schedule |-> sch,
                   total_days |-> totalDays,
                   on_time_days |-> onTimeDays,
                   meets_hours_days |-> meetsHoursDays,
                   full_compliance_days |-> fullComplianceDays,
                   on_time_percentage |-> Percentage(onTimeDays, totalDays),
                   meets_hours_percentage |-> Percentage(meetsHoursDays, totalDays),
                   full_compliance_percentage |-> Percentage(fullComplianceDays, totalDays),
                   average_start_variance_minutes |->
                       IF totalDays > 0
                         THEN RoundDiv(SumSeq([i \in 1..totalDays |->
                                                  comparisonData[i].start_minutes]), totalDays)
                         ELSE 0,
                   average_hours_variance |->
                       IF totalDays > 0
                         THEN RoundDiv(SumSeq([i \in 1..totalDays |->
                                                  comparisonData[i].hours_variance]), totalDays)
                         ELSE 0,
                   daily_comparison |-> comparisonData]
    /\ StateUnchanged

\* Stores the aggregators are run on.
HoursStores ==
    { {},
      {AttendanceRow(1, "e1", 9 * SecondsPerHour, Some(17 * SecondsPerHour + 15 * 60),
                     Some(825), Null),
       AttendanceRow(2, "e1", 18 * SecondsPerHour, Null, Null, Null)},
      {AttendanceRow(1, "e1", 9 * SecondsPerHour, Some(17 * SecondsPerHour + 15 * 60),
                     Some(825), Null),
       AttendanceRow(2, "e1", 5 * SecondsPerDay + 9 * SecondsPerHour + 40,
                     Some(5 * SecondsPerDay + 16 * SecondsPerHour + 30 * 60 + 40), Some(750), Null),
       AttendanceRow(3, "e1", 7 * SecondsPerDay + 9 * SecondsPerHour, Null, Null, Null)},
      {AttendanceRow(1, "e1", 28 * SecondsPerDay + 9 * SecondsPerHour,
                     Some(28 * SecondsPerDay + 17 * SecondsPerHour), Some(800), Null),
       AttendanceRow(2, "e1", 30 * SecondsPerDay + 9 * SecondsPerHour,
                     Some(30 * SecondsPerDay + 13 * SecondsPerHour), Some(400), Null),
       AttendanceRow(3, "e1", 31 * SecondsPerDay + 9 * SecondsPerHour,
                     Some(31 * SecondsPerDay + 17 * SecondsPerHour), Some(800), Null),
       AttendanceRow(4, "e1", 9 * SecondsPerHour - SecondsPerDay,
                     Some(17 * SecondsPerHour - SecondsPerDay), Some(800), Null)},
      {AttendanceRow(1, "e2", 9 * SecondsPerHour, Some(17 * SecondsPerHour), Some(800), Null),
       AttendanceRow(2, "e1", 7 * SecondsPerDay + 9 * SecondsPerHour + 20,
                     Some(7 * SecondsPerDay + 17 * SecondsPerHour + 20), Some(800), Null),
       AttendanceRow(3, "e1", 8 * SecondsPerDay + 8 * SecondsPerHour,
                     Some(8 * SecondsPerDay + 15 * SecondsPerHour + 45 * 60), Some(775), Null)} }

\* The requests' parameters: each may be absent.
HoursQueries ==
    {[kind |-> "hours", employee_id |-> "e1", date |-> d, start_date |-> s,
      end_date |-> t, year |-> ym[1], month |-> ym[2]] :
        d \in {Null, Some(0)}, s \in {Null, Some(0)}, t \in {Null, Some(8)},
        ym \in {<<Null, Null>>, <<Some(2025), Some(12)>>, <<Some(2025), Some(11)>>}}

HoursInit ==
    /\ employees \in [EmpIds -> {Absent, Registered, Deactivated}]
    /\ employees["e1"] /= Absent
    /\ attendance \in {att \in HoursStores :
                          \A r \in att : ForeignKeyOk(employees, r.employee_id)}
    /\ nextId = 5
    /\ schedules \in {{}, {ScheduleRow(1, "e1", <<"0", "8", ":", "3", "0">>,
                                       <<"1", "6", ":", "3", "0">>, 7750)}}
    /\ nextSchedId = 2
    /\ now = 40 * SecondsPerDay
    /\ reqs = [s \in Slots |-> IdleRequest]
    /\ res = NoResponse
    /\ tz \in TzOffsets
    /\ query \in HoursQueries
    /\ report = NoReport
    /\ breaks = {}

HoursNext ==
    \/ GetWorkHoursDaily
    \/ GetWorkHoursWeekly
    \/ GetWorkHoursMonthly
    \/ GetWorkHoursSummary
    \/ GetScheduleComparison

SpecHours == HoursInit /\ [][HoursNext]_vars

----------------------------------------------------------------------------
(* Manual entry and the per-employee payroll reports *)

\* clock_out: '' in a request body, the empty string: a value that is no
\* timestamp.  It stands outside the timestamps of the model.
Blank == 0 - 1000 * SecondsPerDay

\* if (clock_out): null, undefined and '' are falsy
Falsy(cout) == cout = Null \/ cout = Some(Blank)

\* The same hours with a negative interval clamped to 0
ManualHoursClamped(cin, cout) ==
    IF Falsy(cout) THEN Null
    ELSE Some(IF Val(cout) < cin THEN 0 ELSE RoundDiv(Val(cout) - cin, 36))

\* Math.round(((clockOutDate - clockInDate) / (1000 * 60 * 60)) * 100) / 100
\* when clock_out is truthy, else null
ManualHours(cin, cout) ==
    IF Falsy(cout) THEN Null ELSE Some(RoundDiv(Val(cout) - cin, 36))

\* The clock_in of a request body is its instant, followed by its separator
\* when the text is written as YYYY-MM-DDTHH:MM:SS
Sep(cin) == IF Len(cin) = 2 THEN cin[2] ELSE " "

\* POST /api/attendance/manual
ManualAttendance(e, cin, cout, notes) ==
    /\ nextId <= MaxManual
    /\ IF e = "" \/ cin = Null
         THEN /\ res' = Response("manual", e, 400, "Employee ID and clock-in time are required")
              /\ UNCHANGED <<attendance, nextId>>
       ELSE IF ~ForeignKeyOk(employees, e)
         THEN /\ res' = Response("manual", e, 404, "Employee not found")
              /\ UNCHANGED <<attendance, nextId>>
       ELSE /\ attendance' = attendance \cup
                  {[AttendanceRow(nextId, e, Val(cin), cout, ManualHours(Val(cin), cout),
                                  SanitizeNotes(notes)) EXCEPT !.sep = Sep(cin)]}
            /\ nextId' = nextId + 1
            /\ res' = Response("manual", e, 200, "ok")
    /\ UNCHANGED <<employees, schedules, nextSchedId, now, reqs>>
    /\ ReportUnchanged

\* Bodies of manual entries: a day's work, a clock-out before the clock-in, an
\* open record, a record after the requested range, and a body without clock_in.
ManualInputs ==
    { <<Some(9 * SecondsPerHour), Some(17 * SecondsPerHour + 15 * 60)>>,
      <<Some(SecondsPerDay + 8 * SecondsPerHour), Some(SecondsPerDay + 12 * SecondsPerHour + 20)>>,
      <<Some(17 * SecondsPerHour), Some(9 * SecondsPerHour)>>,
      <<Some(9 * SecondsPerHour + 60), Null>>,
      <<Some(3 * SecondsPerDay + 9 * SecondsPerHour), Some(3 * SecondsPerDay + 17 * SecondsPerHour)>>,
      <<Null, Null>> }

\* req.query.rate: absent, or a number in hundredths
RateInputs == {Null, Some(0), Some(7055), Some(0 - 1000)}

ReportFrame ==
    UNCHANGED <<employees, attendance, nextId, schedules, nextSchedId, now, reqs, res, tz,
               breaks>>

\* GET /api/reports/payroll-breakdown/:employee_id?start_date&end_date&rate
RequestPayrollBreakdown(rate) ==
    /\ query' = [query EXCEPT !.rate = rate]
    /\ report' = PayrollBreakdownAnswer(query', attendance, schedules, tz)
    /\ ReportFrame

\* GET /api/payroll-summary/:id?start_date&end_date&rate
RequestPayrollSummaryView(rate) ==
    /\ query' = [query EXCEPT !.rate = rate]
    /\ report' = PayrollSummaryViewAnswer(query', attendance, schedules, tz)
    /\ ReportFrame

PayrollInit ==
    /\ employees = [e \in EmpIds |-> IF e = "e1" THEN Registered ELSE Absent]
    /\ attendance = {}
    /\ nextId = 1
    /\ schedules \in {{}, {ScheduleRow(1, "e1", <<"0", "8", ":", "3", "0">>,
                                       <<"1", "6", ":", "3", "0">>, 7125)}}
    /\ nextSchedId = 2
    /\ now = 4 * SecondsPerDay
    /\ reqs = [s \in Slots |-> IdleRequest]
    /\ res = NoResponse
    /\ tz = 0
    /\ query \in {[kind |-> "range", employee_id |-> "e1", start_date |-> s,
                   end_date |-> Some(1), rate |-> Null] : s \in {Null, Some(0)}}
    /\ report = NoReport
    /\ breaks = {}

PayrollNext ==
    \/ \E e \in EmpInputs, b \in ManualInputs : ManualAttendance(e, b[1], b[2], <<>>)
    \/ \E rate \in RateInputs : RequestPayrollBreakdown(rate)
    \/ \E rate \in RateInputs : RequestPayrollSummaryView(rate)

SpecPayroll == PayrollInit /\ [][PayrollNext]_vars

----------------------------------------------------------------------------
(* The administrator's record edits next to the employee-facing handlers *)

\* PUT /api/attendance/:id
EditAttendance(id, cin, cout, notes) ==
    /\ IF cin = Null
         THEN /\ res' = Response("edit", "", 400, "Clock-in time is required")
              /\ UNCHANGED attendance
       ELSE IF ~\E r \in attendance : r.id = id
         THEN /\ res' = Response("edit", "", 404, "Attendance record not found")
              /\ UNCHANGED attendance
       ELSE /\ attendance' =
                 {IF r.id = id
                     THEN [r EXCEPT !.clock_in = Val(cin),
                                    !.sep = Sep(cin),
                                    !.clock_out = cout,
                                    !.hours_worked = ManualHours(Val(cin), cout),
                                    !.notes = SanitizeNotes(notes)]
                     ELSE r : r \in attendance}
            /\ res' = Response("edit", (CHOOSE r \in attendance : r.id = id).employee_id,
                               200, "ok")
    /\ UNCHANGED <<employees, nextId, schedules, nextSchedId, now, reqs>>
    /\ ReportUnchanged

\* DELETE /api/attendance/:id
DeleteAttendance(id) ==
    /\ IF ~\E r \in attendance : r.id = id
         THEN /\ res' = Response("delete-attendance", "", 404, "Attendance record not found")
              /\ UNCHANGED attendance
       ELSE /\ attendance' = {r \in attendance : r.id /= id}
            /\ res' = Response("delete-attendance",
                               (CHOOSE r \in attendance : r.id = id).employee_id, 200, "ok")
    /\ UNCHANGED <<employees, nextId, schedules, nextSchedId, now, reqs>>
    /\ ReportUnchanged

\* Bodies of manual entries and edits: a day's work, a clock-out 8 hours and 10
\* seconds before the clock-in, an open record, and a body without clock_in.
AdminInputs ==
    { <<Some(9 * SecondsPerHour), Some(17 * SecondsPerHour)>>,
      <<Some(17 * SecondsPerHour), Some(9 * SecondsPerHour)>>,
      <<Some(9 * SecondsPerHour + 10), Some(9 * SecondsPerHour)>>,
      <<Some(10 * SecondsPerHour), Null>>,
      <<Null, Null>> }

AdminInit ==
    /\ employees = [e \in EmpIds |-> IF e = "e1" THEN Registered ELSE Absent]
    /\ attendance = {}
    /\ nextId = 1
    /\ schedules \in {{}, {ScheduleRow(1, "e1", DefaultStart, DefaultEnd, 0 - 1000)}}
    /\ nextSchedId = 2
    /\ now = ClockStart
    /\ reqs = [s \in Slots |-> IdleRequest]
    /\ res = NoResponse
    /\ tz = 0
    /\ query = [kind |-> "range", employee_id |-> "e1",
                start_date |-> Some(0), end_date |-> Some(1), rate |-> Null]
    /\ report = NoReport
    /\ breaks = {}

\* The same bodies and one whose clock_out is the empty string
AdminBodies == AdminInputs \cup {<<Some(9 * SecondsPerHour), Some(Blank)>>}

\* An open record of 08:00 whose clock_in is written '2025-12-01T08:00:00'
IsoBodies == {<<(<<8 * SecondsPerHour, "T">>), Null>>}

AdminNext ==
    \/ ClockIn("e1")
    \/ ClockOut("e1", <<>>)
    \/ AttendanceScan("e1")
    \/ Tick
    \/ \E b \in AdminBodies \cup IsoBodies : ManualAttendance("e1", b[1], b[2], <<>>)
    \/ \E id \in 1..MaxManual, b \in AdminBodies : EditAttendance(id, b[1], b[2], <<>>)
    \/ \E id \in 1..MaxManual : DeleteAttendance(id)

SpecAdmin == AdminInit /\ [][AdminNext]_vars

\* The administrator's entries and edits, and the classification of the result
EditNext ==
    \/ \E b \in AdminInputs : ManualAttendance("e1", b[1], b[2], <<>>)
    \/ \E id \in 1..MaxManual, b \in AdminInputs : EditAttendance(id, b[1], b[2], <<>>)
    \/ GetAttendanceStatus

SpecEdit == AdminInit /\ [][EditNext]_vars

----------------------------------------------------------------------------
(* PUT /api/employees/:employee_id *)

\* An employees row with the columns the update of details writes
EmployeeRow(name, username) ==
    [exists |-> TRUE, active |-> 1, name |-> name, username |-> username]

\* The handler registered second for PUT /api/employees/:employee_id (update
\* of details).  Express hands a request to the first handler registered for
\* its method and path, and that handler never calls next(): no request reaches
\* this one.
UpdateEmployeeDetails(e, name, username) ==
    /\ IF name = Null /\ username = Null
         THEN /\ res' = Response("put-employee", e, 400,
                                 "At least one field (name or username) is required")
              /\ UNCHANGED employees
       ELSE IF ~ForeignKeyOk(employees, e)
         THEN /\ res' = Response("put-employee", e, 404, "Employee not found")
              /\ UNCHANGED employees
       ELSE IF /\ username /= Null
               /\ Val(username) /= employees[e].username
               /\ \E o \in EmpIds \ {e} :
                     employees[o].exists /\ employees[o].username = Val(username)
         THEN /\ res' = Response("put-employee", e, 400, "Username already taken")
              /\ UNCHANGED employees
       ELSE /\ employees' =
                 [employees EXCEPT
                    ![e].name = IF name /= Null THEN Val(name) ELSE @,
                    ![e].username = IF username /= Null THEN Val(username) ELSE @]
            /\ res' = Response("put-employee", e, 200, "ok")
    /\ UNCHANGED <<attendance, nextId, schedules, nextSchedId, now, reqs>>
    /\ ReportUnchanged

\* PUT /api/employees/:employee_id as the server answers it: the handler
\* registered first, which reads start_date and end_date of the query string
\* and answers with the attendance summary
PutEmployee(q) ==
    /\ query' = q
    /\ report' = AttendanceSummaryAnswer(q, employees, attendance, schedules)
    /\ res' = Response("put-employee", q.employee_id, report'.status,
                       IF report'.status = 400 THEN "start_date and end_date are required"
                       ELSE IF report'.status = 404 THEN "Employee not found" ELSE "ok")
    /\ UNCHANGED <<employees, attendance, nextId, schedules, nextSchedId, now, reqs, tz,
                   breaks>>

\* The requests: a body with name and/or username, a query string with or
\* without a range
PutEmployeeInputs ==
    {[kind |-> "put-employee", employee_id |-> e, name |-> n, username |-> u,
      start_date |-> s, end_date |-> t] :
        e \in EmpIds, n \in {Null, Some("n9")}, u \in {Null, Some("u9"), Some("u2")},
        s \in {Null, Some(0)}, t \in {Null, Some(1)}}

DetailsInit ==
    /\ employees \in {[e \in EmpIds |-> IF e = "e1" THEN EmployeeRow("n1", "u1") ELSE second] :
                         second \in {Absent, EmployeeRow("n2", "u2")}}
    /\ attendance \in {{}, {AttendanceRow(1, "e1", 9 * SecondsPerHour,
                                          Some(17 * SecondsPerHour), Some(800), Null)}}
    /\ nextId = 2
    /\ schedules = {}
    /\ nextSchedId = 1
    /\ now = 2 * SecondsPerDay
    /\ reqs = [s \in Slots |-> IdleRequest]
    /\ res = NoResponse
    /\ tz = 0
    /\ query = NoQuery
    /\ report = NoReport
    /\ breaks = {}

DetailsNext == \E q \in PutEmployeeInputs : PutEmployee(q)

SpecDetails == DetailsInit /\ [][DetailsNext]_vars

----------------------------------------------------------------------------
(* DELETE /api/employees/:employee_id, statement by statement, next to   *)
(* the requests that write rows of the same employee                      *)

\* The ids of the attendance rows and of the schedule rows of e
RowIdsOf(att, scheds, e) ==
    [attendance |-> {r.id : r \in {x \in att : x.employee_id = e}},
     schedules |-> {r.id : r \in ScheduleRows(scheds, e)}]

\* The request in flight; before holds the ids of the employee's rows when the
\* request arrived
DeleteEmployeeRequest(pc, e, before) ==
    [pc |-> pc, kind |-> "delete-employee", emp |-> e, notes |-> <<>>, rec |-> 0,
     before |-> before]

DeleteFrame == UNCHANGED <<nextId, nextSchedId, now, tz, query, report, breaks>>

\* DELETE /api/employees/:employee_id arrives
DeleteEmployeeArrive(s, e) ==
    /\ reqs[s].pc = "idle"
    /\ reqs' = [reqs EXCEPT ![s] =
                  DeleteEmployeeRequest("find_employee", e, RowIdsOf(attendance, schedules, e))]
    /\ UNCHANGED <<employees, attendance, schedules, res>>
    /\ DeleteFrame

\* SELECT * FROM employees WHERE employee_id = ?
DeleteEmployeeFind(s) ==
    /\ reqs[s].kind = "delete-employee"
    /\ reqs[s].pc = "find_employee"
    /\ IF ~employees[reqs[s].emp].exists
         THEN Answer(s, 404, "Employee not found")
         ELSE Goto(s, "delete_attendance") /\ UNCHANGED res
    /\ UNCHANGED <<employees, attendance, schedules>>
    /\ DeleteFrame

\* DELETE FROM attendance WHERE employee_id = ?
DeleteEmployeeAttendance(s) ==
    /\ reqs[s].kind = "delete-employee"
    /\ reqs[s].pc = "delete_attendance"
    /\ attendance' = {r \in attendance : r.employee_id /= reqs[s].emp}
    /\ Goto(s, "delete_schedules")
    /\ UNCHANGED <<employees, schedules, res>>
    /\ DeleteFrame

\* DELETE FROM employee_schedules WHERE employee_id = ?
DeleteEmployeeSchedules(s) ==
    /\ reqs[s].kind = "delete-employee"
    /\ reqs[s].pc = "delete_schedules"
    /\ schedules' = DeleteSchedules(schedules, reqs[s].emp)
    /\ Goto(s, "delete_employee")
    /\ UNCHANGED <<employees, attendance, res>>
    /\ DeleteFrame

\* PRAGMA foreign_keys = ON: a row of attendance or employee_schedules that
\* references the employee makes DELETE FROM employees fail
Referenced(att, scheds, e) ==
    (\E r \in att : r.employee_id = e) \/ ScheduleRows(scheds, e) /= {}

\* DELETE FROM employees WHERE employee_id = ?
DeleteEmployeeRow(s) ==
    /\ reqs[s].kind = "delete-employee"
    /\ reqs[s].pc = "delete_employee"
    /\ IF Referenced(attendance, schedules, reqs[s].emp)
         THEN /\ Answer(s, 500, "Database error occurred: FOREIGN KEY constraint failed")
              /\ UNCHANGED employees
         ELSE /\ employees' = [employees EXCEPT ![reqs[s].emp] = Absent]
              /\ Answer(s, 200, "ok")
    /\ UNCHANGED <<attendance, schedules>>
    /\ DeleteFrame

\* The bodies of the other requests
DeleteScheduleBodies ==
    {ScheduleBody(<<"1", "0", ":", "0", "0">>, <<"1", "4", ":", "0", "0">>, Some(0))}

DeleteManualBodies == {<<Some(10 * SecondsPerHour), Null>>}

\* e1 has a completed record and a schedule
DeleteInit ==
    /\ employees = [e \in EmpIds |-> IF e = "e1" THEN Registered ELSE Absent]
    /\ attendance = {AttendanceRow(1, "e1", 9 * SecondsPerHour - SecondsPerDay,
                                   Some(17 * SecondsPerHour - SecondsPerDay), Some(800), Null)}
    /\ nextId = 2
    /\ schedules = {ScheduleRow(1, "e1", DefaultStart, DefaultEnd, DefaultExpectedHours)}
    /\ nextSchedId = 2
    /\ now = ClockStart
    /\ reqs = [s \in Slots |-> IdleRequest]
    /\ res = NoResponse
    /\ tz = 0
    /\ query = NoQuery
    /\ report = NoReport
    /\ breaks = {}

\* Slot 1 carries the delete, slot 2 the other requests for the same employee
DeleteNext ==
    \/ DeleteEmployeeArrive(1, "e1")
    \/ DeleteEmployeeFind(1)
    \/ DeleteEmployeeAttendance(1)
    \/ DeleteEmployeeSchedules(1)
    \/ DeleteEmployeeRow(1)
    \/ \E k \in {"clock-in", "scan"} : Arrive(2, k, "e1", <<>>)
    \/ ClockInSelectEmployee(2)
    \/ ClockInSelectOpen(2)
    \/ ClockInRunInsert(2)
    \/ Reselect(2)
    \/ ScanSelectOpen(2)
    \/ ScanRunUpdate(2)
    \/ ScanRunInsert(2)
    \/ \E b \in DeleteManualBodies : ManualAttendance("e1", b[1], b[2], <<>>)
    \/ \E b \in DeleteScheduleBodies : PostScheduleArrive(2, "e1", b)
    \/ PostScheduleSelect(2)
    \/ PostScheduleUpdate(2)
    \/ PostScheduleInsert(2)
    \/ PostScheduleReselect(2)

SpecDelete == DeleteInit /\ [][DeleteNext]_vars

----------------------------------------------------------------------------
(* GET /api/attendance-detection, and the stores the classifier and the    *)
(* comparator are both run on                                               *)

\* ... FROM attendance a JOIN employees e ... WHERE date(a.clock_in) in the
\* range AND a.clock_out IS NOT NULL
CompletedInRange(att, emps, startDate, endDate) ==
    {r \in att : /\ ForeignKeyOk(emps, r.employee_id)
                 /\ DateOf(r.clock_in) >= startDate
                 /\ DateOf(r.clock_in) <= endDate
                 /\ r.clock_out /= Null}

\* one element of statusRecords
DetectionRecord(r, scheds) ==
    LET sch == EffectiveSchedule(scheds, r.employee_id)
    IN  [id |-> r.id, employee_id |-> r.employee_id, clock_in |-> r.clock_in,
         clock_out |-> r.clock_out, hours_worked |-> r.hours_worked]
          @@ detectAttendanceStatus(r.clock_in, Val(r.clock_out), sch.start_time,
                                    sch.end_time, sch.expected_hours)

\* statusRecords.filter(r => r[flag]), in the order of the query
DetectionList(rows, scheds, flag) ==
    LET kept == OrderByClockInDesc({r \in rows : DetectionRecord(r, scheds)[flag]})
    IN  [i \in 1..Len(kept) |-> DetectionRecord(kept[i], scheds)]

\* Math.round(lateRecords.reduce((sum, r) => sum + r.undertimeHours, 0) * 100) / 100
TotalUndertimeHours(lateRecords) ==
    SumSeq([i \in 1..Len(lateRecords) |-> lateRecords[i].undertimeHours])

\* the answer of GET /api/attendance-detection
AttendanceDetectionAnswer(q, emps, att, scheds) ==
    IF RangeMissing(q) THEN ErrorReport("attendance-detection", 400)
    ELSE LET rows == CompletedInRange(att, emps, Val(q.start_date), Val(q.end_date))
             lateRecords == DetectionList(rows, scheds, "isLate")
             undertimeRecords == DetectionList(rows, scheds, "isUndertime")
             overtimeRecords == DetectionList(rows, scheds, "isOvertime")
         IN  [kind |-> "attendance-detection", status |-> 200,
              summary |->
                [total_records |-> Cardinality(rows),
                 late_count |-> Len(lateRecords),
                 undertime_count |-> Len(undertimeRecords),
                 overtime_count |-> Len(overtimeRecords),
                 total_late_minutes |->
                     SumSeq([i \in 1..Len(lateRecords) |-> lateRecords[i].lateMinutes]),
                 total_undertime_hours |-> TotalUndertimeHours(lateRecords),
                 total_overtime_hours |->
                     SumSeq([i \in 1..Len(overtimeRecords) |->
                                overtimeRecords[i].overtimeHours])],
              late |-> lateRecords,
              undertime |-> undertimeRecords,
              overtime |-> overtimeRecords]

\* GET /api/attendance-detection
GetAttendanceDetection ==
    /\ report' = AttendanceDetectionAnswer(query, employees, attendance, schedules)
    /\ StateUnchanged

\* Clock-in times around the default start of 09:00
CompareClockIns ==
    { 8 * SecondsPerHour + 30 * 60,
      9 * SecondsPerHour,
      9 * SecondsPerHour + 20,
      9 * SecondsPerHour + 29,
      9 * SecondsPerHour + 30,
      9 * SecondsPerHour + 45,
      9 * SecondsPerHour + 15 * 60 }

CompareElapsed ==
    { 8 * SecondsPerHour,
      8 * SecondsPerHour + 15 * 60,
      7 * SecondsPerHour + 20 * 60,
      7 * SecondsPerHour + 7 * 60 + 30 }

CompareRecords ==
    {<<cin, Null, Null>> : cin \in CompareClockIns}
      \cup {<<cin, Some(cin + el), Some(HoursCenti(el))>> :
                cin \in CompareClockIns, el \in CompareElapsed}

\* The first record is e1's, the others are e2's; e1 has no schedule row or
\* one; the requests come with and without a range
CompareInit ==
    /\ employees = [e \in EmpIds |-> Registered]
    /\ \E f \in [1..MaxStored -> CompareRecords] :
          attendance = {AttendanceRow(i, IF i = 1 THEN "e1" ELSE "e2",
                                      f[i][1], f[i][2], f[i][3], Null) : i \in 1..MaxStored}
    /\ nextId = MaxStored + 1
    /\ schedules \in {{}, {ScheduleRow(1, "e1", <<"0", "8", ":", "3", "0">>,
                                       <<"1", "6", ":", "3", "0">>, 7750)}}
    /\ nextSchedId = 2
    /\ now = 2 * SecondsPerDay
    /\ reqs = [s \in Slots |-> IdleRequest]
    /\ res = NoResponse
    /\ tz = 0
    /\ query \in {[kind |-> "range", employee_id |-> "e1", start_date |-> s,
                   end_date |-> Some(1), rate |-> Null] : s \in {Null, Some(0)}}
    /\ report = NoReport
    /\ breaks = {}

CompareNext ==
    \/ GetAttendanceStatus
    \/ GetScheduleComparison
    \/ GetAttendanceDetection

SpecCompare == CompareInit /\ [][CompareNext]_vars

----------------------------------------------------------------------------
(* Breaks *)

BreakRow(id, e, attendanceId, start) ==
    [id |-> id, employee_id |-> e, attendance_id |-> attendanceId,
     start_time |-> start, end_time |-> Null, duration_minutes |-> Null]

\* SELECT * FROM breaks WHERE employee_id = ? AND end_time IS NULL
ActiveBreaks(brks, e) == {b \in brks : b.employee_id = e /\ b.end_time = Null}

\* ... ORDER BY start_time DESC LIMIT 1: the rows db.get may return
LatestActiveBreaks(brks, e) ==
    {b \in ActiveBreaks(brks, e) :
        \A o \in ActiveBreaks(brks, e) : o.start_time <= b.start_time}

BreakFrame ==
    UNCHANGED <<employees, attendance, nextId, schedules, nextSchedId, now, reqs,
                tz, query, report>>

\* POST /api/breaks/start; breaks.id is AUTOINCREMENT and no row is ever deleted
StartBreak(e) ==
    /\ IF e = ""
         THEN /\ res' = Response("break-start", e, 400, "employee_id is required")
              /\ UNCHANGED breaks
       ELSE IF LatestOpenRecords(attendance, e) = {}
         THEN /\ res' = Response("break-start", e, 400, "Must be clocked in to start a break")
              /\ UNCHANGED breaks
       ELSE IF ActiveBreaks(breaks, e) /= {}
         THEN /\ res' = Response("break-start", e, 400, "Already on an active break")
              /\ UNCHANGED breaks
       ELSE /\ Cardinality(breaks) < MaxBreaks
            /\ \E r \in LatestOpenRecords(attendance, e) :
                  breaks' = breaks \cup {BreakRow(Cardinality(breaks) + 1, e, r.id, now)}
            /\ res' = Response("break-start", e, 200, "Break started")
    /\ BreakFrame

\* POST /api/breaks/end
EndBreak(e) ==
    /\ IF e = ""
         THEN /\ res' = Response("break-end", e, 400, "employee_id is required")
              /\ UNCHANGED breaks
       ELSE IF LatestActiveBreaks(breaks, e) = {}
         THEN /\ res' = Response("break-end", e, 404, "No active break found")
              /\ UNCHANGED breaks
       ELSE \E b \in LatestActiveBreaks(breaks, e) :
              /\ breaks' = {IF x.id = b.id
                              THEN [x EXCEPT !.end_time = Some(now),
                                             !.duration_minutes =
                                                 Some(RoundDiv(now - x.start_time, 60))]
                              ELSE x : x \in breaks}
              /\ res' = Response("break-end", e, 200, "Break ended")
    /\ BreakFrame

BreaksNext ==
    \/ \E e \in EmpInputs : ClockIn(e)
    \/ ClockOut("e1", <<>>)
    \/ AttendanceScan("e1")
    \/ \E e \in EmpInputs : StartBreak(e)
    \/ \E e \in EmpInputs : EndBreak(e)
    \/ Tick

SpecBreaks == RaceInit /\ [][BreaksNext]_vars

----------------------------------------------------------------------------
(* Claims about the clock-in / clock-out / scan path *)

\* C1: in every state reachable by interleaved clock-in, clock-out and scan
\* requests, every employee has at most one attendance record with
\* clock_out = NULL.
C1_AtMostOneOpenRecord ==
    \A e \in EmpIds :
        Cardinality({r \in attendance : r.employee_id = e /\ r.clock_out = Null}) <= 1

\* C2: once a record's clock_out is set, no later step of a clock-out or scan
\* request changes that record (its clock_out, hours_worked or notes).
C2_ClosedRecordNeverChanges ==
    [][\A r \in attendance : r.clock_out /= Null => r \in attendance']_vars

\* C3: a clock-in request run to completion inserts one new open record if and
\* only if the employee exists, is active and has no open record; otherwise it
\* answers not found, deactivated or a 400 and the attendance table is unchanged.
ClockInAccepts(e) ==
    /\ e \in EmpIds
    /\ employees[e].exists
    /\ employees[e].active = 1
    /\ \A r \in attendance : r.employee_id = e => r.clock_out /= Null

ClockInAnswered(e) ==
    /\ res'.op = "clock-in"
    /\ res'.employee_id = e
    /\ (res' /= res \/ attendance' /= attendance)

C3_ClockInContract ==
    [][\A e \in EmpInputs :
          ClockInAnswered(e) =>
            IF ClockInAccepts(e)
              THEN /\ res'.status = 200
                   /\ \E r \in attendance' \ attendance :
                        /\ r.employee_id = e
                        /\ r.clock_in = now
                        /\ r.clock_out = Null
                        /\ attendance' = attendance \cup {r}
              ELSE /\ res'.status \in {400, 403, 404}
                   /\ res'.status = 404 <=> (e /= "" /\ ~employees[e].exists)
                   /\ res'.status = 403 <=>
                        (e /= "" /\ employees[e].exists /\ employees[e].active = 0)
                   /\ res'.body = "Already clocked in" <=>
                        (e /= "" /\ employees[e].exists /\ employees[e].active = 1)
                   /\ attendance' = attendance]_vars

\* A clock-in was accepted after the employee's earlier record was closed, and
\* a later clock-in of the same employee met the conflict.
C3_Witness ==
    /\ res = Response("clock-in", "e1", 400, "Already clocked in")
    /\ \E r \in attendance :
          r.employee_id = "e1" /\ r.clock_out = Null /\ r.clock_in > ClockStart
    /\ \E r \in attendance : r.employee_id = "e1" /\ r.clock_out /= Null

----------------------------------------------------------------------------
(* Claims about schedules *)

\* C8: the effective schedule that classification and the reports use equals
\* the persisted row's (start_time, end_time, expected_hours) whenever a row
\* exists, equals the defaults when none exists, and is the schedule that
\* GET /api/schedules returns.
C8_EffectiveScheduleIsPersisted ==
    \A e \in EmpIds :
        /\ \A r \in schedules :
              r.employee_id = e =>
                EffectiveSchedule(schedules, e) =
                    Triple(r.start_time, r.end_time, r.expected_hours)
        /\ (\A r \in schedules : r.employee_id /= e) =>
                EffectiveSchedule(schedules, e) =
                    Triple(DefaultStart, DefaultEnd, DefaultExpectedHours)
        /\ EffectiveSchedule(schedules, e) = GetSchedule(schedules, e)

\* C9: under any interleaving of POST and DELETE /api/schedules there is at
\* most one schedule row per employee; a POST whose write reports no error (it
\* then answers success) leaves the employee's row holding exactly the posted
\* start_time, end_time and expected_hours; a successful DELETE leaves no row.
PostScheduleWrote(s) ==
    /\ reqs[s].kind = "post-schedule"
    /\ reqs[s].pc \in {"update", "insert"}
    /\ reqs'[s].pc = "reselect"

DeleteScheduleAnswered(s) ==
    /\ reqs[s].kind = "delete-schedule"
    /\ reqs[s].pc = "delete"
    /\ reqs'[s].pc = "idle"

C9_ScheduleUpsert ==
    [][/\ \A e \in EmpIds :
            Cardinality({r \in schedules' : r.employee_id = e}) <= 1
       /\ \A s \in Slots :
            /\ PostScheduleWrote(s) =>
                 \E r \in schedules' :
                    /\ r.employee_id = reqs[s].emp
                    /\ r.start_time = reqs[s].body.start_time
                    /\ r.end_time = reqs[s].body.end_time
                    /\ r.expected_hours = Val(reqs[s].body.expected_hours)
            /\ DeleteScheduleAnswered(s) =>
                 \A r \in schedules' : r.employee_id /= reqs[s].emp]_vars

----------------------------------------------------------------------------
(* Claims about the status classifier *)

\* The reports whose completed records carry the classifier's whole result
ClassifierReport ==
    /\ report.kind \in {"attendance-status", "attendance-summary"}
    /\ report.status = 200

CompletedEntries ==
    {i \in 1..Len(report.records) : report.records[i].clock_out /= Null}

\* C4: for every completed record the classifier reports exactly one of
\* isUndertime, isOvertime, and reported hoursWorked equal to expectedHours.
C4_ExactlyOneOutcome ==
    ClassifierReport =>
        \A i \in CompletedEntries :
            LET x == report.records[i]
                under == x.isUndertime
                over == x.isOvertime
                equal == (10 * x.hoursWorked = x.expectedHours)
            IN  /\ under \/ over \/ equal
                /\ ~(under /\ over)
                /\ ~(under /\ equal)
                /\ ~(over /\ equal)

\* C5: for every record whose clock-out is later than its clock-in, the reported
\* hoursWorked is the elapsed time in hours rounded to 2 decimals, overtimeHours
\* is (elapsed hours - expectedHours) rounded to 2 decimals when overtime and
\* undertimeHours is (expectedHours - elapsed hours) rounded to 2 decimals when
\* undertime; 09:15 to 17:30 against 8 expected hours reports 8.25 and 0.25.
NearestCenti(c, num, den) ==
    /\ 2 * den * c - den <= 2 * num
    /\ 2 * num < 2 * den * c + den

StartSecondsOf(text) ==
    CASE text = <<"0", "8", ":", "3", "0">> -> 8 * SecondsPerHour + 30 * 60
      [] text = <<"0", "9", ":", "0", "0">> -> 9 * SecondsPerHour
      [] text = <<"1", "0", ":", "0", "0">> -> 10 * SecondsPerHour

ExpectedStartOn(e, t) ==
    (t - (t % SecondsPerDay))
      + (IF \E r \in schedules : r.employee_id = e
           THEN StartSecondsOf((CHOOSE r \in schedules : r.employee_id = e).start_time)
           ELSE 9 * SecondsPerHour)

C6_StrictLateness ==
    ClassifierReport =>
        \A i \in CompletedEntries :
            LET x == report.records[i]
                start == ExpectedStartOn(query.employee_id, x.clock_in)
            IN  /\ x.isLate <=> x.clock_in > start
                /\ x.clock_in = start => (~x.isLate /\ x.lateMinutes = 0)
                /\ x.clock_in = start + 60 => (x.isLate /\ x.lateMinutes = 1)

C6_Witness ==
    /\ ClassifierReport
    /\ \E i \in CompletedEntries :
          LET x == report.records[i]
          IN  /\ x.clock_in >= SecondsPerDay
              /\ x.clock_in = ExpectedStartOn(query.employee_id, x.clock_in) + 60
              /\ x.isLate
              /\ x.lateMinutes = 1

\* C7: for a record with no clock-out every classifying report gives
\* hoursWorked 0 and undertime and overtime false with zero magnitudes, and
\* computes lateness as clock-in strictly after the expected start time.
SourceRows ==
    CASE report.kind = "payroll-breakdown" ->
            OrderByClockIn(RecordsInRange(attendance, query.employee_id,
                                          Val(query.start_date), Val(query.end_date)))
      [] report.kind = "summary-view" ->
            OrderByClockIn({r \in attendance : r.employee_id = query.employee_id})
      [] OTHER -> report.records

C7_IncompleteRecords ==
    (/\ report.kind \in {"attendance-status", "attendance-summary",
                         "payroll-breakdown", "summary-view"}
     /\ report.status = 200) =>
        \A i \in 1..Len(report.records) :
            LET x == report.records[i]
                src == SourceRows[i]
                late == src.clock_in > ExpectedStartOn(query.employee_id, src.clock_in)
            IN  src.clock_out = Null =>
                  CASE report.kind = "attendance-status" ->
                          /\ x.hoursWorked = 0
                          /\ ~x.isUndertime /\ x.undertimeHours = 0
                          /\ ~x.isOvertime /\ x.overtimeHours = 0
                          /\ x.isLate <=> late
                    [] report.kind = "attendance-summary" ->
                          /\ ~x.isUndertime
                          /\ ~x.isOvertime
                          /\ x.isLate <=> late
                    [] OTHER ->
                          /\ x.hoursWorked = 0
                          /\ ~x.status.undertime
                          /\ ~x.status.overtime
                          /\ x.status.late <=> late

----------------------------------------------------------------------------
(* Claims about the exception detector *)

\* Monday to Friday, day 0 being a Monday
IsWeekdayDate(d) == d % 7 \in 0..4

\* C10: for an active employee with no attendance rows in the range, the
\* detector reports exactly one missing day for each Monday-to-Friday date of
\* the range, carrying that date, and none for a Saturday or a Sunday.
C10_MissingWeekdays ==
    (/\ report.kind \in {"errors-and-missing", "errors-and-missing-for"}
     /\ report.status = 200) =>
        \A e \in EmpIds :
            (/\ employees[e] = Registered
             /\ report.kind = "errors-and-missing-for" => e = query.employee_id
             /\ RecordsInRange(attendance, e, Val(query.start_date),
                               Val(query.end_date)) = {}) =>
                \A d \in 0..MaxDay :
                    Cardinality({i \in 1..Len(report.missing_days) :
                                    /\ report.missing_days[i].employee_id = e
                                    /\ report.missing_days[i].missing_date = d})
                      = IF /\ d >= Val(query.start_date)
                           /\ d <= Val(query.end_date)
                           /\ IsWeekdayDate(d)
                          THEN 1 ELSE 0

\* The all-employee detector answered
DetectorAnswer ==
    /\ report.kind = "errors-and-missing"
    /\ report.status = 200

ListsMissing(e, d) ==
    \E i \in 1..Len(report.missing_days) :
        /\ report.missing_days[i].employee_id = e
        /\ report.missing_days[i].missing_date = d

ListsIncomplete(e, d) ==
    \E i \in 1..Len(report.incomplete_records) :
        /\ report.incomplete_records[i].employee_id = e
        /\ report.incomplete_records[i].work_date = d

\* C11: the detector reports (e, d) as a missing day if and only if e is active,
\* d is a Monday-to-Friday date of the range and e has no attendance row whose
\* clock-in date is d; no report lists both an incomplete record of e clocked in
\* on d and a missing day (e, d).
C11_MissingIff ==
    DetectorAnswer =>
        \A e \in EmpIds, d \in 0..MaxDay :
            /\ ListsMissing(e, d) <=>
                 /\ employees[e] = Registered
                 /\ d >= Val(query.start_date)
                 /\ d <= Val(query.end_date)
                 /\ IsWeekdayDate(d)
                 /\ ~\E r \in attendance :
                       r.employee_id = e /\ r.clock_in \div SecondsPerDay = d
            /\ ~(ListsIncomplete(e, d) /\ ListsMissing(e, d))

----------------------------------------------------------------------------
(* Claims about the per-employee payroll reports *)

PayrollKinds == {"payroll-breakdown", "payroll-summary-view"}

\* The classifier's hoursWorked of a stored record, 0 without a clock-out
ClassifierHours(r, e) ==
    IF r.clock_out = Null THEN 0
    ELSE detectAttendanceStatus(r.clock_in, Val(r.clock_out),
                                EffectiveSchedule(schedules, e).start_time,
                                EffectiveSchedule(schedules, e).end_time,
                                EffectiveSchedule(schedules, e).expected_hours).hoursWorked

RECURSIVE SumClassifierHours(_, _)
SumClassifierHours(rows, e) ==
    IF rows = {} THEN 0
    ELSE LET r == CHOOSE x \in rows : TRUE
         IN  ClassifierHours(r, e) + SumClassifierHours(rows \ {r}, e)

C13_PayrollMonotonic ==
    [][(/\ report.kind = "payroll-breakdown" /\ report.status = 200
        /\ report'.kind = "payroll-breakdown" /\ report'.status = 200) =>
          /\ (/\ Len(report.records) = Len(report'.records)
              /\ HourlyRate(query) <= HourlyRate(query')) =>
                report.payrollAmount <= report'.payrollAmount
          /\ (/\ Len(report.records) < Len(report'.records)
              /\ HourlyRate(query) = HourlyRate(query')) =>
                report.payrollAmount <= report'.payrollAmount]_vars

----------------------------------------------------------------------------
(* Claims about the all-employee payroll summary *)

\* The Monday-to-Friday dates of the requested range
WeekdaysOfRange ==
    {d \in 0..MaxDay : /\ d >= Val(query.start_date)
                       /\ d <= Val(query.end_date)
                       /\ IsWeekdayDate(d)}

\* The dates of the requested range on which e has an attendance row
DatesAttended(e) ==
    {d \in 0..MaxDay : /\ d >= Val(query.start_date)
                       /\ d <= Val(query.end_date)
                       /\ \E r \in attendance :
                             r.employee_id = e /\ r.clock_in \div SecondsPerDay = d}

\* C14: in the all-employee payroll summary each active employee's missing_days
\* is the number of Monday-to-Friday dates of the range on which the employee
\* has no attendance row, and attendance_rate is actualWorkDays /
\* expectedWorkDays x 100 rounded, 0 when there are no expected work days.
C14_MissingDaysAndRate ==
    (report.kind = "payroll-summary" /\ report.status = 200) =>
        \A i \in 1..Len(report.employees) :
            LET s == report.employees[i]
                actual == Cardinality(DatesAttended(s.employee_id))
                expected == Cardinality(WeekdaysOfRange)
            IN  /\ s.missing_days =
                     Cardinality(WeekdaysOfRange \ DatesAttended(s.employee_id))
                /\ IF expected = 0 THEN s.attendance_rate = 0
                   ELSE NearestCenti(s.attendance_rate, 100 * actual, expected)

----------------------------------------------------------------------------
(* Claims about the work-hours aggregators *)

\* The stored hours of a set of records, null counted as 0
RECURSIVE SumStoredHours(_)
SumStoredHours(rows) ==
    IF rows = {} THEN 0
    ELSE LET r == CHOOSE x \in rows : TRUE
         IN  (IF r.hours_worked = Null THEN 0 ELSE r.hours_worked[1])
               + SumStoredHours(rows \ {r})

\* The records of the requested employee clocked in on a date from lo to hi
RowsBetween(lo, hi) ==
    {r \in attendance : /\ r.employee_id = query.employee_id
                        /\ r.clock_in \div SecondsPerDay >= lo
                        /\ r.clock_in \div SecondsPerDay <= hi}

WeeklyAnswer == report.kind = "work-hours-weekly" /\ report.status = 200

WeekLast == IF query.end_date = Null THEN query.start_date[1] + 6 ELSE query.end_date[1]

C16_DailyAggregate ==
    (report.kind = "work-hours-daily" /\ report.status = 200) =>
        LET rows == RowsBetween(query.date[1], query.date[1])
        IN  /\ {report.records[i] : i \in 1..Len(report.records)} = rows
            /\ Len(report.records) = Cardinality(rows)
            /\ report.total_hours = SumStoredHours(rows)
            /\ report.total_records = report.completed_records + report.incomplete_records
            /\ report.total_records = Cardinality(rows)
            /\ report.incomplete_records = Cardinality({r \in rows : r.clock_out = Null})

C16_Witness ==
    /\ report.kind = "work-hours-daily"
    /\ report.status = 200
    /\ report.total_records = 2
    /\ report.incomplete_records = 1
    /\ report.total_hours = 825

\* C17: the monthly aggregate covers exactly the records clocked in from the
\* first day of the month up to but excluding the first day of the next month,
\* and puts every worked day into exactly one bucket 'Week N' with N =
\* ceil(dayOfMonth / 7) in 1..5; the buckets' day counts sum to days_worked and
\* their hours to the monthly total.
MonthFirst == IF query.month = Some(12) THEN 0 ELSE 0 - 30
MonthLast == IF query.month = Some(12) THEN 30 ELSE 0 - 1

C17_MonthlyBuckets ==
    (report.kind = "work-hours-monthly" /\ report.status = 200) =>
        LET rows == RowsBetween(MonthFirst, MonthLast)
            dates == {r.clock_in \div SecondsPerDay : r \in rows}
            Bucket(d) == ((d - MonthFirst + 1) + 6) \div 7
            weeks == report.weekly_summary
        IN  /\ {report.daily_breakdown[i].work_date :
                   i \in 1..Len(report.daily_breakdown)} = dates
            /\ report.days_worked = Cardinality(dates)
            /\ report.total_hours = SumStoredHours(rows)
            /\ DOMAIN weeks = {Bucket(d) : d \in dates}
            /\ DOMAIN weeks \subseteq 1..5
            /\ \A n \in DOMAIN weeks :
                  /\ weeks[n].days = Cardinality({d \in dates : Bucket(d) = n})
                  /\ weeks[n].hours =
                       SumStoredHours({r \in rows : Bucket(r.clock_in \div SecondsPerDay) = n})

\* C18: the all-employee work-hours summary has exactly one entry per active
\* employee and none for a deactivated one; an active employee with no
\* attendance in range appears with days_worked, total_hours,
\* expected_total_hours, hours_variance and compliance_percentage all 0.
C18_SummaryPerActiveEmployee ==
    (report.kind = "work-hours-summary" /\ report.status = 200) =>
        LET entries == report.employees
            InRange(e) == {r \in attendance :
                              /\ r.employee_id = e
                              /\ r.clock_in \div SecondsPerDay >= query.start_date[1]
                              /\ r.clock_in \div SecondsPerDay <= query.end_date[1]}
        IN  /\ \A e \in EmpIds :
                  Cardinality({i \in 1..Len(entries) : entries[i].employee_id = e})
                    = IF employees[e].exists /\ employees[e].active = 1 THEN 1 ELSE 0
            /\ \A i \in 1..Len(entries) :
                  InRange(entries[i].employee_id) = {} =>
                      /\ entries[i].days_worked = 0
                      /\ entries[i].total_hours = 0
                      /\ entries[i].expected_total_hours = 0
                      /\ entries[i].hours_variance = 0
                      /\ entries[i].compliance_percentage = 0

C18_Witness ==
    /\ report.kind = "work-hours-summary"
    /\ report.status = 200
    /\ employees["e1"] = Deactivated
    /\ \E r \in attendance : r.employee_id = "e1" /\ r.clock_in \div SecondsPerDay <= 8
    /\ Len(report.employees) = 1
    /\ report.employees[1].employee_id = "e2"
    /\ report.employees[1].days_worked = 0
    /\ report.employees[1].compliance_percentage = 0

ComparisonAnswer == report.kind = "schedule-comparison" /\ report.status = 200

\* C19: the compliance comparator considers only the records with a clock-out;
\* for each, on_time holds iff the rounded start variance in minutes is <= 0,
\* meets_expected_hours iff hours_worked >= the expected hours, and overall =
\* on_time AND meets_expected_hours; so full_compliance_days <= on_time_days <=
\* total_days, full_compliance_days <= meets_hours_days <= total_days, every
\* percentage is within 0..100, and all are 0 without a completed record.
C19_ComplianceComparator ==
    ComparisonAnswer =>
        LET e == query.employee_id
            completed == {r \in RowsBetween(query.start_date[1], query.end_date[1]) :
                             r.clock_out /= Null}
            ordered == OrderByClockIn(completed)
            rows == report.daily_comparison
            expected == IF \E s \in schedules : s.employee_id = e
                          THEN (CHOOSE s \in schedules : s.employee_id = e).expected_hours
                          ELSE 8000
            Count(days) == Cardinality(days)
        IN  /\ Len(rows) = Cardinality(completed)
            /\ report.total_days = Cardinality(completed)
            /\ \A i \in 1..Len(rows) :
                  /\ NearestCenti(rows[i].start_minutes,
                                  ordered[i].clock_in - ExpectedStartOn(e, ordered[i].clock_in), 60)
                  /\ rows[i].on_time <=> (rows[i].start_minutes <= 0)
                  /\ rows[i].meets_expected_hours <=>
                        (10 * ordered[i].hours_worked[1] >= expected)
                  /\ rows[i].overall <=> (rows[i].on_time /\ rows[i].meets_expected_hours)
            /\ report.on_time_days = Count({i \in 1..Len(rows) : rows[i].on_time})
            /\ report.meets_hours_days = Count({i \in 1..Len(rows) : rows[i].meets_expected_hours})
            /\ report.full_compliance_days = Count({i \in 1..Len(rows) : rows[i].overall})
            /\ report.full_compliance_days <= report.on_time_days
            /\ report.on_time_days <= report.total_days
            /\ report.full_compliance_days <= report.meets_hours_days
            /\ report.meets_hours_days <= report.total_days
            /\ report.on_time_percentage \in 0..100
            /\ report.meets_hours_percentage \in 0..100
            /\ report.full_compliance_percentage \in 0..100
            /\ completed = {} =>
                  /\ report.on_time_days = 0
                  /\ report.meets_hours_days = 0
                  /\ report.full_compliance_days = 0
                  /\ report.on_time_percentage = 0
                  /\ report.meets_hours_percentage = 0
                  /\ report.full_compliance_percentage = 0

C19_Witness ==
    /\ ComparisonAnswer
    /\ \E r \in RowsBetween(query.start_date[1], query.end_date[1]) : r.clock_out = Null
    /\ report.total_days = 2
    /\ report.on_time_days = 1
    /\ report.meets_hours_days = 1
    /\ report.full_compliance_days = 1
    /\ report.on_time_percentage = 50
    /\ \E i \in 1..2 : report.daily_comparison[i].start_minutes = 1

----------------------------------------------------------------------------
(* Claims about the exception report's summary *)

\* C20: in the exception report employees_with_issues is the number of distinct
\* employee ids appearing in the returned incomplete_records or missing_days; in
\* the single-employee variant it is 1 when either list is non-empty and 0
\* otherwise.
C20_EmployeesWithIssues ==
    /\ (report.kind = "errors-and-missing" /\ report.status = 200) =>
          report.employees_with_issues =
              Cardinality({e \in EmpIds :
                  \/ \E i \in 1..Len(report.incomplete_records) :
                        report.incomplete_records[i].employee_id = e
                  \/ \E i \in 1..Len(report.missing_days) :
                        report.missing_days[i].employee_id = e})
    /\ (report.kind = "errors-and-missing-for" /\ report.status = 200) =>
          report.employees_with_issues =
              IF report.incomplete_records /= <<>> \/ report.missing_days /= <<>>
                THEN 1 ELSE 0

C20_Witness ==
    /\ report.kind = "errors-and-missing"
    /\ report.status = 200
    /\ report.employees_with_issues = 2
    /\ report.total_incomplete_records >= 1
    /\ report.total_missing_days >= 2

----------------------------------------------------------------------------
(* Claims about validation and reversed intervals *)

\* The computations over a date range
RangeKinds ==
    {"attendance-status", "schedule-comparison", "work-hours-summary", "errors-and-missing",
     "errors-and-missing-for", "payroll-summary", "payroll-breakdown", "payroll-summary-view"}

AdminAnswerOk ==
    res.op \in {"manual", "edit"} =>
        \/ res.status = 200
        \/ res.status = 400 /\ res.body \in {"Employee ID and clock-in time are required",
                                             "Clock-in time is required"}
        \/ res.status = 404 /\ res.body \in {"Employee not found", "Attendance record not found"}

\* A stored record whose clock_out is earlier than its clock_in
Reversed(r) == r.clock_out /= Null /\ r.clock_out[1] < r.clock_in

\* What the store holds for the reversed records; strict asks for hours < 0 always
ReversedStored(strict) ==
    \A r \in attendance :
        Reversed(r) =>
            /\ r.hours_worked /= Null
            /\ NearestCenti(r.hours_worked[1], r.clock_out[1] - r.clock_in, 36)
            /\ r.hours_worked[1] <= 0
            /\ (strict \/ r.clock_in - r.clock_out[1] >= 18) => r.hours_worked[1] < 0

\* What a classification says of the reversed records; strict asks for a
\* negative hoursWorked and isUndertime always
ReversedClassified(strict) ==
    (report.kind = "attendance-status" /\ report.status = 200) =>
        \A i \in 1..Len(report.records) :
            LET x == report.records[i]
                expected == IF schedules = {} THEN 8000
                            ELSE (CHOOSE s \in schedules : TRUE).expected_hours
            IN  Reversed(x) =>
                    /\ NearestCenti(x.hoursWorked, x.clock_out[1] - x.clock_in, 36)
                    /\ x.hoursWorked <= 0
                    /\ (strict \/ x.clock_in - x.clock_out[1] >= 18) => x.hoursWorked < 0
                    /\ (strict \/ expected >= 0) => x.isUndertime

----------------------------------------------------------------------------
(* Claims about the update of an employee's details *)

\* C23: a PUT /api/employees/:employee_id request for an existing employee that
\* carries a new name and/or a username not used by another employee changes
\* that employee's stored name/username to the supplied values and leaves
\* every other employee and all attendance records unchanged.
C23_UpdateDetails ==
    [][(/\ res'.op = "put-employee"
        /\ employees[query'.employee_id].exists
        /\ query'.name /= Null \/ query'.username /= Null
        /\ query'.username /= Null =>
              \A o \in EmpIds \ {query'.employee_id} :
                  employees[o].exists => employees[o].username /= query'.username[1]) =>
          /\ query'.name /= Null => employees'[query'.employee_id].name = query'.name[1]
          /\ query'.username /= Null =>
                employees'[query'.employee_id].username = query'.username[1]
          /\ \A o \in EmpIds \ {query'.employee_id} : employees'[o] = employees[o]
          /\ attendance' = attendance]_vars

----------------------------------------------------------------------------
(* Claims about the records under the administrator's edits *)

\* C24: in every state reachable by clock-in, clock-out, attendance-scan,
\* manual create, attendance edit and attendance delete, each attendance record
\* has hours_worked = null if and only if clock_out = null, and when clock_out
\* is non-null hours_worked equals the elapsed time from clock_in to clock_out
\* in hours rounded to 2 decimals.
C24_HoursFollowClockOut ==
    \A r \in attendance :
        /\ r.hours_worked = Null <=> r.clock_out = Null
        /\ r.clock_out /= Null =>
              NearestCenti(r.hours_worked[1], r.clock_out[1] - r.clock_in, 36)

\* The same over the records whose clock_out is a timestamp
C24_HoursOfTimestamps ==
    \A r \in attendance :
        r.clock_out /= Some(Blank) =>
            /\ r.hours_worked = Null <=> r.clock_out = Null
            /\ r.clock_out /= Null =>
                  NearestCenti(r.hours_worked[1], r.clock_out[1] - r.clock_in, 36)

\* An accepted clock-out that found at least two open records of e1
ClosesAmongSeveral ==
    /\ res'.op = "clock-out"
    /\ res'.status = 200
    /\ attendance' /= attendance
    /\ Cardinality(OpenRecords(attendance, "e1")) >= 2

\* The step closes r and nothing else
ClosesOnly(r) ==
    /\ \E c \in attendance' :
          /\ c.id = r.id
          /\ c.clock_in = r.clock_in
          /\ c.clock_out /= Null
          /\ attendance' = (attendance \ {r}) \cup {c}
    /\ Cardinality(OpenRecords(attendance', "e1")) =
          Cardinality(OpenRecords(attendance, "e1")) - 1

\* A clock-in answered while e1 has an open record
ClockInWhileOpen ==
    /\ res'.op = "clock-in"
    /\ res' /= res
    /\ OpenRecords(attendance, "e1") /= {}

\* C25: when an employee has k >= 2 open records (reachable through manual
\* create), one /api/clock-out closes exactly one of them, the one with the
\* latest clock_in, and leaves the other k - 1 unchanged; /api/clock-in keeps
\* being rejected with 'Already clocked in' until every open record is closed.
C25_ClosesLatestOpen ==
    [][/\ ClosesAmongSeveral => \E r \in LatestByInstant(attendance, "e1") : ClosesOnly(r)
       /\ ClockInWhileOpen =>
             /\ res'.status = 400
             /\ res'.body = "Already clocked in"
             /\ attendance' = attendance]_vars

\* The same with "latest" read as SQLite orders the stored clock_in texts
C25_ClosesLastInTextOrder ==
    [][/\ ClosesAmongSeveral => \E r \in LatestOpenRecords(attendance, "e1") : ClosesOnly(r)
       /\ ClockInWhileOpen =>
             /\ res'.status = 400
             /\ res'.body = "Already clocked in"
             /\ attendance' = attendance]_vars

----------------------------------------------------------------------------
(* Claims about deactivated employees *)

\* The ids of the attendance records of e
RecordIds(att, e) == {r.id : r \in {x \in att : x.employee_id = e}}

\* C26: while an employee is deactivated, no employee-facing operation
\* (clock-in, attendance-scan) creates a new attendance record for it.
C26_DeactivatedGetsNoRecord ==
    [][\A e \in EmpIds :
          (employees[e].exists /\ employees[e].active = 0) =>
              RecordIds(attendance', e) \subseteq RecordIds(attendance, e)]_vars

\* The same for clock-in alone
C26_DeactivatedClockInRefused ==
    [][\A e \in EmpIds :
          (employees[e].exists /\ employees[e].active = 0 /\ res'.op = "clock-in") =>
              RecordIds(attendance', e) \subseteq RecordIds(attendance, e)]_vars

----------------------------------------------------------------------------
(* Claims about the deletion of an employee *)

\* The delete of slot 1 is answered with this status in the step
DeleteAnswered(status) ==
    /\ reqs[1].kind = "delete-employee"
    /\ reqs'[1].pc = "idle"
    /\ res'.op = "delete-employee"
    /\ res'.status = status

\* On success the employee row is gone and no row references the employee
DeleteSucceeds ==
    DeleteAnswered(200) =>
        /\ ~employees'["e1"].exists
        /\ ~Referenced(attendance', schedules', "e1")

\* On an error the rows the employee had when the request arrived are all kept
DeleteFailsWhole ==
    (DeleteAnswered(404) \/ DeleteAnswered(500)) =>
        /\ reqs[1].before.attendance \subseteq RowIdsOf(attendance', schedules', "e1").attendance
        /\ reqs[1].before.schedules \subseteq RowIdsOf(attendance', schedules', "e1").schedules

\* C27: DELETE /api/employees/:employee_id is all-or-nothing under any
\* interleaving with clock-in, scan, manual create and schedule requests for
\* the same employee: when it answers success the employee row is gone and no
\* attendance or schedule row references the employee; when it answers an
\* error the employee's attendance and schedule rows are those before the
\* request.
C27_DeleteAllOrNothing == [][DeleteSucceeds /\ DeleteFailsWhole]_vars

\* The success half alone
C27_SuccessLeavesNoRow == [][DeleteSucceeds]_vars

----------------------------------------------------------------------------
(* Claims about the detection summary and about lateness in two reports *)

\* The classification of the completed records of the range, from the store
ClassifiedInRange ==
    LET rows == OrderByClockInDesc(CompletedInRange(attendance, employees,
                                       Val(query.start_date), Val(query.end_date)))
    IN  [i \in 1..Len(rows) |-> DetectionRecord(rows[i], schedules)]

DetectionAnswered == report.kind = "attendance-detection" /\ report.status = 200

\* C28: in /api/attendance-detection, summary.total_undertime_hours equals the
\* sum of undertimeHours over every completed record in range that is flagged
\* isUndertime, in the same way total_overtime_hours is computed and in the
\* same way the per-employee status report computes it.
C28_TotalUndertimeHours ==
    DetectionAnswered =>
        report.summary.total_undertime_hours =
            SumSeq([i \in 1..Len(ClassifiedInRange) |->
                       IF ClassifiedInRange[i].isUndertime
                         THEN ClassifiedInRange[i].undertimeHours ELSE 0])

\* The overtime total is the sum over the records flagged isOvertime
C28_TotalOvertimeHours ==
    DetectionAnswered =>
        report.summary.total_overtime_hours =
            SumSeq([i \in 1..Len(ClassifiedInRange) |->
                       IF ClassifiedInRange[i].isOvertime
                         THEN ClassifiedInRange[i].overtimeHours ELSE 0])

\* The completed records of the comparator's query, in its order
ComparedRows ==
    OrderByClockIn({r \in attendance :
                       /\ r.employee_id = query.employee_id
                       /\ DateOf(r.clock_in) >= Val(query.start_date)
                       /\ DateOf(r.clock_in) <= Val(query.end_date)
                       /\ r.clock_out /= Null})

\* Seconds from the expected start to the clock-in of r
SecondsAfterStart(r) == r.clock_in - ExpectedStartOn(r.employee_id, r.clock_in)

\* C29: whenever the classifier reports isLate = false the comparator reports
\* on_time = true for the same record; the two disagree only as isLate = true
\* with on_time = true, and only when the clock-in is less than half a minute
\* after the expected start.  (The step is a schedule comparison asked right
\* after the status report of the same employee and range.)
C29_LateAgainstOnTime ==
    [][(/\ report.kind = "attendance-status"
        /\ report.status = 200
        /\ report'.kind = "schedule-comparison"
        /\ report'.status = 200) =>
          \A i \in 1..Len(ComparedRows), j \in 1..Len(report.records) :
              report.records[j].id = ComparedRows[i].id =>
                  LET isLate == report.records[j].isLate
                      on_time == report'.daily_comparison[i].on_time
                      after == SecondsAfterStart(ComparedRows[i])
                  IN  /\ ~isLate => on_time
                      /\ (isLate = on_time) =>
                            /\ isLate
                            /\ on_time
                            /\ after > 0
                            /\ after < 30]_vars

\* A record 29 seconds after the start: late for the classifier, on time for
\* the comparator
C29_Witness ==
    /\ report.kind = "schedule-comparison"
    /\ report.status = 200
    /\ Len(report.daily_comparison) >= 1
    /\ \E r \in attendance :
          /\ r.id = ComparedRows[1].id
          /\ SecondsAfterStart(r) = 29
          /\ StatusRecord(r, EffectiveSchedule(schedules, r.employee_id)).isLate
          /\ report.daily_comparison[1].on_time

----------------------------------------------------------------------------
(* Claims about breaks *)

\* C30: in every state reachable by clock-in, clock-out, scan, break start and
\* break end, an employee with an active break (end_time null) also has an
\* open attendance record, and the break's attendance_id is that open record;
\* an employee never has more than one active break.
C30_ActiveBreakInsideOpenRecord ==
    \A e \in EmpIds :
        /\ \A b \in ActiveBreaks(breaks, e) :
              \E r \in OpenRecords(attendance, e) : r.id = b.attendance_id
        /\ Cardinality(ActiveBreaks(breaks, e)) <= 1

\* The second half alone: at most one active break per employee
C30_AtMostOneActiveBreak ==
    \A e \in EmpIds : Cardinality(ActiveBreaks(breaks, e)) <= 1

====
